---- MODULE Spec2Model ----
(***************************************************************************)
(* Forge: the session store (lib/store, MongoDB-backed whole-document      *)
(* read-modify-write) and the client's synthesis poller (app/page.tsx).    *)
(*                                                                         *)
(* The specifications share the definitions of the store:                  *)
(*   Spec      request handlers running concurrently, one database call    *)
(*             per step (every await of the store is a yield point);       *)
(*   IsoSpec   the same, on two forgeIds;                                  *)
(*   SeqSpec   store operations run one at a time, each a single step;     *)
(*   PollSpec  the poller of handleSynthesize against a session that the   *)
(*             backend fills through addSynthesis / addTodos               *)
(*             (PollLiveSpec: with fetches that settle and timers that     *)
(*             fire);                                                      *)
(*   RouteSpec the route handlers of app/api, one request at a time        *)
(*             (RouteLiveSpec: with an AI service whose fetch settles);    *)
(*   PipeSpec  the AI service's background pipeline (triage, action,       *)
(*             persistence) as the specification describes it, its source  *)
(*             not being part of the tree (PipeLiveSpec: a scheduled run   *)
(*             runs on);                                                   *)
(*   ChatSpec  the chat route with the AI service's chat endpoint;         *)
(*   SeedSpec  the prompt seeding script, run from the Makefile;           *)
(*   ResetSpec addContribution, updateGoal and resetAppState running       *)
(*             concurrently on one session;                                *)
(*   ClientSpec the page's chat input and handleSendMessage                *)
(*             (ClientLiveSpec: with fetches that settle).                 *)
(***************************************************************************)
EXTENDS Integers, Sequences, FiniteSets, TLC

VARIABLES
    coll,      \* the collection 'forge-test1': a set of documents
    clock,     \* Date.now(), in milliseconds
    nOps,      \* store operations begun so far
    nFaults,   \* database calls that have failed so far
    procs,     \* Spec: one record per request handler in flight
    last,      \* SeqSpec: the operation that ran last, and what it returned
    poller,    \* PollSpec: the state of handleSynthesize's poller and of the UI
    http,      \* RouteSpec: the route handler's request and response
    pipe,      \* PipeSpec: the background pipeline run of the AI service
    prompts,   \* SeedSpec: the prompt collection and the last seeding
    client     \* ClientSpec: the page's chat input and its send in progress

vars == <<coll, clock, nOps, nFaults, procs, last, poller, http, pipe,
          prompts, client>>

----------------------------------------------------------------------------
(* Bounds of the model *)

MaxOps == 3        \* SeqSpec, PollSpec: store operations run
MaxCalls == 2      \* Spec: store operations called
MaxResetCalls == 3 \* ResetSpec: store operations called
MaxSends == 2      \* ClientSpec: chat requests issued
MaxClock == 1
MaxFaults == 1

(* Inputs *)

ForgeIds == {"a", "b"}    \* IsoSpec
OneForge == {"a"}         \* Spec, SeqSpec, PollSpec
AuthorIds == {"1", "2", "3"}
Texts == {"t1"}
SynthIds == {"s1", "s2"}
Goals == {"g1"}
ChatRoleIds == {"1", "2"}
Messages == {"m1"}
Authors == {"user", "ai"}

Undefined == "undefined"     \* an omitted optional argument
Null == "null"

BriefingIdArgs == {Undefined, "", "s1"}

Role(name, title, id) == [name |-> name, title |-> title, id |-> id]

RoleLists ==
    { << Role("Konrad", "CEO", "1"), Role("Ada", "CTO", "3") >>,
      << Role("Ada", "CTO", "3") >> }

Synthesis(id) ==
    [id |-> id, content |-> "c", timestamp |-> "ts", sourceContributions |-> <<>>]

TodoItem(roleId, briefing) == [roleId |-> roleId, briefing |-> briefing]

BriefingSets ==
    { <<>>,
      << TodoItem("1", "b1") >>,
      << TodoItem("1", "b1"), TodoItem("1", "b2") >> }

----------------------------------------------------------------------------
(* Array helpers *)

\* Array.prototype.find / findIndex with the test x => x[field] === value:
\* the 1-based index of the first match, 0 when no element matches.
FindIndex(seq, field, value) ==
    IF \E i \in 1..Len(seq) : seq[i][field] = value
    THEN CHOOSE i \in 1..Len(seq) :
            /\ seq[i][field] = value
            /\ \A j \in 1..(i - 1) : seq[j][field] # value
    ELSE 0

\* Array.prototype.splice(index, 1)
Splice1(seq, index) ==
    [i \in 1..(Len(seq) - 1) |-> IF i < index THEN seq[i] ELSE seq[i + 1]]

IsPrefix(s, t) ==
    Len(s) <= Len(t) /\ \A i \in 1..Len(s) : s[i] = t[i]

\* JavaScript truthiness of an optional string argument
Truthy(v) == v \notin {Undefined, Null, ""}

----------------------------------------------------------------------------
(* The session document *)

EmptyTodos == [k \in {} |-> <<>>]

\* (mutant) a default session that has lost its second seed role
getInitialStateOneRole ==
    [roles |-> << Role("Konrad", "Product Lead", "1") >>,
     contributions |-> <<>>,
     syntheses |-> <<>>,
     todos |-> EmptyTodos,
     roleChats |-> <<>>,
     goal |-> "Create MVP scope for new product idea"]

getInitialState ==
    [roles |-> << Role("Konrad", "Product Lead", "1"),
                  Role("Eike", "General Consultant", "2") >>,
     contributions |-> <<>>,
     syntheses |-> <<>>,
     todos |-> EmptyTodos,
     roleChats |-> <<>>,
     goal |-> "Create MVP scope for new product idea"]

\* (mutant) the forgeId is not made part of the document's id
DocIdShared(forgeId) == "forge-"

\* _id: `forge-${forgeId}`
DocId(forgeId) == "forge-" \o forgeId

\* { _id: `forge-${forgeId}`, ...state }
ToDoc(forgeId, state) ==
    [_id |-> DocId(forgeId),
     roles |-> state.roles,
     contributions |-> state.contributions,
     syntheses |-> state.syntheses,
     todos |-> state.todos,
     roleChats |-> state.roleChats,
     goal |-> state.goal]

\* const { _id, ...state } = doc
StateOf(doc) ==
    [roles |-> doc.roles,
     contributions |-> doc.contributions,
     syntheses |-> doc.syntheses,
     todos |-> doc.todos,
     roleChats |-> doc.roleChats,
     goal |-> doc.goal]

----------------------------------------------------------------------------
(* The database calls of readState and writeState *)

\* collection.findOne({ _id }): the documents the filter matches
FindOne(c, id) == {d \in c : d._id = id}

\* (mutant) an insert into a collection whose key is not the session's id
InsertOneNoUniqueKey(c, doc) == [ok |-> TRUE, coll |-> c \cup {doc}]

\* collection.insertOne(doc): _id is the collection's unique key, a second
\* document with the same _id is refused with a duplicate-key error.
InsertOne(c, doc) ==
    IF FindOne(c, doc._id) = {}
    THEN [ok |-> TRUE, coll |-> c \cup {doc}]
    ELSE [ok |-> FALSE, coll |-> c]

\* (mutant) a write that inserts when the document is absent and otherwise
\* leaves the stored document alone
ReplaceOneInsertOnly(c, id, doc) ==
    IF FindOne(c, id) = {} THEN c \cup {doc} ELSE c

\* collection.replaceOne({ _id }, doc, { upsert: true })
ReplaceOne(c, id, doc) ==
    LET m == FindOne(c, id)
    IN  IF m = {} THEN c \cup {doc}
        ELSE (c \ {CHOOSE d \in m : TRUE}) \cup {doc}

\* (mutant) a readState whose catch branch also stores the initial state
ReadStateResetOnFailure(c, forgeId, dbOk) ==
    LET found == FindOne(c, DocId(forgeId))
    IN  IF dbOk /\ found # {}
        THEN [state |-> StateOf(CHOOSE d \in found : TRUE), coll |-> c,
              how |-> "found"]
        ELSE [state |-> getInitialState,
              coll |-> (c \ found) \cup {ToDoc(forgeId, getInitialState)},
              how |-> IF dbOk THEN "created" ELSE "failed"]

\* readState, as one call: dbOk is whether its database calls succeed.
\* how: "found", "created", or "failed" (the catch branch).
ReadState(c, forgeId, dbOk) ==
    LET found == FindOne(c, DocId(forgeId))
        ins == InsertOne(c, ToDoc(forgeId, getInitialState))
    IN  IF ~dbOk
        THEN [state |-> getInitialState, coll |-> c, how |-> "failed"]
        ELSE IF found # {}
        THEN [state |-> StateOf(CHOOSE d \in found : TRUE), coll |-> c,
              how |-> "found"]
        ELSE IF ins.ok
        THEN [state |-> getInitialState, coll |-> ins.coll, how |-> "created"]
        ELSE [state |-> getInitialState, coll |-> c, how |-> "failed"]

\* (mutant) a write made of a delete and an insert, which fails in between
WriteStateDeleteFirst(c, forgeId, state, dbOk) ==
    IF dbOk THEN (c \ FindOne(c, DocId(forgeId))) \cup {ToDoc(forgeId, state)}
    ELSE c \ FindOne(c, DocId(forgeId))

\* writeState: the error of a failed write is logged and swallowed.
WriteState(c, forgeId, state, dbOk) ==
    IF dbOk THEN ReplaceOne(c, DocId(forgeId), ToDoc(forgeId, state)) ELSE c

----------------------------------------------------------------------------
(* What each store operation does to the session it has read.  The result  *)
(* is [status, state]: status "error" is a thrown Error.                   *)

Ok(state) == [status |-> "ok", state |-> state]
Thrown(state) == [status |-> "error", state |-> state]

Contribution(author, authorId, text, now) ==
    [id |-> ToString(now),
     timestamp |-> now,
     authorId |-> authorId,
     authorName |-> author.name,
     authorTitle |-> author.title,
     text |-> text,
     role |-> <<author.name, "-", author.title>>]

\* (mutant) the author is not looked up: an unknown authorId is accepted
addContributionUnchecked(appState, authorId, text, now) ==
    Ok([appState EXCEPT !.contributions =
          Append(@, Contribution([name |-> "", title |-> ""], authorId, text, now))])

addContribution(appState, authorId, text, now) ==
    LET i == FindIndex(appState.roles, "id", authorId)
    IN  IF i = 0
        THEN Thrown(appState)
        ELSE Ok([appState EXCEPT !.contributions =
                    Append(@, Contribution(appState.roles[i], authorId, text, now))])

\* (mutant) the synthesis replaces the list instead of being pushed to it
addSynthesisReplacing(appState, synthesis) ==
    Ok([appState EXCEPT !.syntheses = <<synthesis>>])

addSynthesis(appState, synthesis) ==
    Ok([appState EXCEPT !.syntheses = Append(@, synthesis)])

\* (mutant) todos is rebuilt with the one entry
addTodosOnly(appState, synthesisId, briefings) ==
    Ok([appState EXCEPT !.todos = [k \in {synthesisId} |-> briefings]])

addTodos(appState, synthesisId, briefings) ==
    Ok([appState EXCEPT !.todos =
          [k \in DOMAIN @ \cup {synthesisId} |->
              IF k = synthesisId THEN briefings ELSE @[k]]])

\* (mutant) the new names and titles are also written into the
\* contributions already recorded
updateRolesRenaming(appState, roles) ==
    Ok([appState EXCEPT
          !.roles = roles,
          !.contributions =
              [i \in 1..Len(@) |->
                  LET k == FindIndex(roles, "id", @[i].authorId)
                  IN  IF k = 0 THEN @[i]
                      ELSE [@[i] EXCEPT !.authorName = roles[k].name,
                                        !.authorTitle = roles[k].title]]])

\* (mutant) the contributions of authors that are not in the new list are
\* dropped
updateRolesPruning(appState, roles) ==
    Ok([appState EXCEPT
          !.roles = roles,
          !.contributions =
              SelectSeq(@, LAMBDA c : FindIndex(roles, "id", c.authorId) # 0)])

updateRoles(appState, roles) == Ok([appState EXCEPT !.roles = roles])

updateGoal(appState, goal) == Ok([appState EXCEPT !.goal = goal])

ChatMessage(author, content, now) ==
    [id |-> ToString(now), author |-> author, content |-> content,
     timestamp |-> now]

\* (mutant) lastBriefingId is assigned on every message
addChatMessageOverwriting(appState, roleId, message, author, briefingId, now) ==
    LET i == FindIndex(appState.roleChats, "roleId", roleId)
        chats == IF i = 0
                 THEN Append(appState.roleChats,
                             [roleId |-> roleId, messages |-> <<>>,
                              lastBriefingId |-> Null])
                 ELSE appState.roleChats
        k == IF i = 0 THEN Len(chats) ELSE i
    IN  Ok([appState EXCEPT !.roleChats =
              [chats EXCEPT ![k] =
                  [@ EXCEPT !.messages = Append(@, ChatMessage(author, message, now)),
                            !.lastBriefingId =
                                IF Truthy(briefingId) THEN briefingId ELSE Null]]])

\* (mutant) no lookup of the role's chat: a new RoleChat for every message
addChatMessageAlwaysPush(appState, roleId, message, author, briefingId, now) ==
    Ok([appState EXCEPT !.roleChats =
          Append(@, [roleId |-> roleId,
                     messages |-> <<ChatMessage(author, message, now)>>,
                     lastBriefingId |->
                         IF Truthy(briefingId) THEN briefingId ELSE Null])])

addChatMessage(appState, roleId, message, author, briefingId, now) ==
    LET i == FindIndex(appState.roleChats, "roleId", roleId)
        chats == IF i = 0
                 THEN Append(appState.roleChats,
                             [roleId |-> roleId, messages |-> <<>>,
                              lastBriefingId |->
                                  IF Truthy(briefingId) THEN briefingId ELSE Null])
                 ELSE appState.roleChats
        k == IF i = 0 THEN Len(chats) ELSE i
    IN  Ok([appState EXCEPT !.roleChats =
              [chats EXCEPT ![k] =
                  [@ EXCEPT !.messages = Append(@, ChatMessage(author, message, now)),
                            !.lastBriefingId =
                                IF Truthy(briefingId) THEN briefingId ELSE @]]])

\* (mutant) every chat is removed, not only the role's
clearRoleChatAll(appState, roleId) ==
    Ok([appState EXCEPT !.roleChats = <<>>])

clearRoleChat(appState, roleId) ==
    LET i == FindIndex(appState.roleChats, "roleId", roleId)
    IN  Ok(IF i > 0
           THEN [appState EXCEPT !.roleChats = Splice1(@, i)]
           ELSE appState)

\* getRoleChat's result: the chat of the role, or null
getRoleChat(appState, roleId) ==
    LET i == FindIndex(appState.roleChats, "roleId", roleId)
    IN  IF i > 0 THEN appState.roleChats[i] ELSE Null

----------------------------------------------------------------------------
(* Requests: an operation's name and arguments *)

ReadRequests ==
    {[name |-> "getAppState"]}
    \cup {[name |-> "getRoleChat", roleId |-> r] : r \in ChatRoleIds}

MutationRequests ==
    {[name |-> "addContribution", authorId |-> a, text |-> t] :
        a \in AuthorIds, t \in Texts}
    \cup {[name |-> "addSynthesis", synthesis |-> Synthesis(s)] : s \in SynthIds}
    \cup {[name |-> "addTodos", synthesisId |-> s, briefings |-> b] :
        s \in SynthIds, b \in BriefingSets}
    \cup {[name |-> "updateRoles", roles |-> r] : r \in RoleLists}
    \cup {[name |-> "updateGoal", goal |-> g] : g \in Goals}
    \cup {[name |-> "addChatMessage", roleId |-> r, message |-> m, author |-> a,
           briefingId |-> b] :
        r \in ChatRoleIds, m \in Messages, a \in Authors, b \in BriefingIdArgs}
    \cup {[name |-> "clearRoleChat", roleId |-> r] : r \in ChatRoleIds}

ResetRequest == [name |-> "resetAppState"]

\* The synchronous part of a mutation, between `await readState` and
\* `await writeState`.
Modify(req, appState, now) ==
    CASE req.name = "addContribution" ->
            addContribution(appState, req.authorId, req.text, now)
      [] req.name = "addSynthesis" -> addSynthesis(appState, req.synthesis)
      [] req.name = "addTodos" ->
            addTodos(appState, req.synthesisId, req.briefings)
      [] req.name = "updateRoles" -> updateRoles(appState, req.roles)
      [] req.name = "updateGoal" -> updateGoal(appState, req.goal)
      [] req.name = "addChatMessage" ->
            addChatMessage(appState, req.roleId, req.message, req.author,
                           req.briefingId, now)
      [] req.name = "clearRoleChat" -> clearRoleChat(appState, req.roleId)

----------------------------------------------------------------------------
(* Initial state: an empty collection, no request in flight *)

NoRequest == [name |-> "none"]

\* SeqSpec's record of the operation that ran last: its request, the
\* collection before it ran, the outcomes of its readState and writeState,
\* and what it returned.
NoOp ==
    [name |-> "none", forgeId |-> "", req |-> NoRequest, before |-> {},
     read |-> "none", write |-> "none", status |-> "none",
     state |-> getInitialState]

Procs == {"p1", "p2"}

\* A handler: pc is the database call it waits for; read and write are the
\* outcomes of its readState and writeState; overlap is the handlers that
\* had read the same session and not yet written it when this one read;
\* status and state are what the operation returns.
IdleProc ==
    [pc |-> "idle", forgeId |-> "", req |-> NoRequest, read |-> "none",
     write |-> "none", overlap |-> {}, status |-> "none",
     state |-> getInitialState, before |-> {}]

NoFetch == [outcome |-> "none", state |-> getInitialState]

IdlePoller ==
    [pc |-> "idle", attempts |-> 0, target |-> "", isLoading |-> FALSE,
     syntheses |-> <<>>, todos |-> EmptyTodos, overallContext |-> "",
     fetched |-> NoFetch, fetches |-> 0]

\* A route handler: the request it serves, the response it has returned,
\* the store operations and AI-service calls it has made for the request,
\* the error it has caught, and whether an error has left the handler.
NoResponse == [status |-> 0, body |-> "none"]

IdleHttp ==
    [pc |-> "idle", req |-> [route |-> "none"], response |-> NoResponse,
     storeCalls |-> 0, aiCalls |-> 0, caught |-> "none", escaped |-> FALSE,
     isQuestion |-> FALSE, service |-> "none", modelCalls |-> 0]

\* A pipeline run of the AI service: the contribution it was scheduled for,
\* the session when it was scheduled, the triage output and the action
\* decided, the result of the action's model call, the events of the run
\* in their order.
NoResult == [synthesisId |-> "", briefings |-> <<>>, text |-> ""]

IdlePipe ==
    [pc |-> "idle", forgeId |-> "", contributionId |-> "", roleId |-> "",
     before |-> getInitialState, output |-> [json |-> FALSE, action |-> ""],
     action |-> "none", failure |-> "none", result |-> NoResult,
     log |-> <<>>]

\* The prompt collection (name -> document): empty before the first
\* seeding.  A record of the last seeding is kept with it.
NoDocs == [n \in {} |-> [template |-> "", version |-> 0, model |-> ""]]

NoPrompts ==
    [docs |-> NoDocs, before |-> NoDocs,
     lastOp |-> [name |-> "none", force |-> FALSE, defs |-> NoDocs]]

\* The page's chat state: useState's initial values.
NoChatState ==
    [forgeId |-> "", selectedRoleId |-> "", chatMessage |-> "",
     isSendingMessage |-> FALSE]

NoSend == [called |-> FALSE, isQuestion |-> FALSE, issued |-> FALSE]

\* state: the values React holds; rendered: the values of the last render,
\* which the handlers of that render read; sends: the calls of
\* handleSendMessage that have issued their request.
IdleClient ==
    [state |-> NoChatState, rendered |-> NoChatState, sends |-> <<>>,
     lastCall |-> NoSend]

Init ==
    /\ coll = {}
    /\ clock = 0
    /\ nOps = 0
    /\ nFaults = 0
    /\ procs = [p \in Procs |-> IdleProc]
    /\ last = NoOp
    /\ poller = IdlePoller
    /\ http = IdleHttp
    /\ pipe = IdlePipe
    /\ prompts = NoPrompts
    /\ client = IdleClient

\* Time passes.
Tick ==
    /\ clock < MaxClock
    /\ clock' = clock + 1
    /\ UNCHANGED <<coll, nOps, nFaults, procs, last, poller, http, pipe, prompts, client>>

Faults(rOk, wOk) == (IF rOk THEN 0 ELSE 1) + (IF wOk THEN 0 ELSE 1)

----------------------------------------------------------------------------
(* SeqSpec: store operations one at a time, each a single step *)

\* A read operation: getAppState, getRoleChat.
SeqRead(forgeId, req, rOk) ==
    LET r == ReadState(coll, forgeId, rOk)
    IN  /\ nOps < MaxOps
        /\ nFaults + Faults(rOk, TRUE) <= MaxFaults
        /\ coll' = r.coll
        /\ last' = [name |-> req.name, forgeId |-> forgeId, req |-> req,
                    before |-> coll,
                    read |-> r.how, write |-> "none", status |-> "ok",
                    state |-> r.state]
        /\ nOps' = nOps + 1
        /\ nFaults' = nFaults + Faults(rOk, TRUE)
        /\ UNCHANGED <<clock, procs, poller, http, pipe, prompts, client>>

\* A mutation: readState, the change, writeState.
SeqMutate(forgeId, req, rOk, wOk) ==
    LET r == ReadState(coll, forgeId, rOk)
        m == Modify(req, r.state, clock)
    IN  /\ nOps < MaxOps
        /\ nFaults + Faults(rOk, wOk) <= MaxFaults
        /\ m.status = "error" => wOk      \* no write is attempted
        /\ coll' = IF m.status = "ok"
                   THEN WriteState(r.coll, forgeId, m.state, wOk)
                   ELSE r.coll
        /\ last' = [name |-> req.name, forgeId |-> forgeId, req |-> req,
                    before |-> coll,
                    read |-> r.how,
                    write |-> IF m.status = "error" THEN "none"
                              ELSE IF wOk THEN "ok" ELSE "failed",
                    status |-> m.status, state |-> m.state]
        /\ nOps' = nOps + 1
        /\ nFaults' = nFaults + Faults(rOk, wOk)
        /\ UNCHANGED <<clock, procs, poller, http, pipe, prompts, client>>

Named(reqs, name) == {req \in reqs : req.name = name}

SeqGetAppState(f) ==
    \E req \in Named(ReadRequests, "getAppState"), rOk \in BOOLEAN :
        SeqRead(f, req, rOk)

SeqGetRoleChat(f) ==
    \E req \in Named(ReadRequests, "getRoleChat"), rOk \in BOOLEAN :
        SeqRead(f, req, rOk)

SeqAddContribution(f) ==
    \E req \in Named(MutationRequests, "addContribution"), rOk, wOk \in BOOLEAN :
        SeqMutate(f, req, rOk, wOk)

SeqAddSynthesis(f) ==
    \E req \in Named(MutationRequests, "addSynthesis"), rOk, wOk \in BOOLEAN :
        SeqMutate(f, req, rOk, wOk)

SeqAddTodos(f) ==
    \E req \in Named(MutationRequests, "addTodos"), rOk, wOk \in BOOLEAN :
        SeqMutate(f, req, rOk, wOk)

SeqUpdateRoles(f) ==
    \E req \in Named(MutationRequests, "updateRoles"), rOk, wOk \in BOOLEAN :
        SeqMutate(f, req, rOk, wOk)

SeqUpdateGoal(f) ==
    \E req \in Named(MutationRequests, "updateGoal"), rOk, wOk \in BOOLEAN :
        SeqMutate(f, req, rOk, wOk)

SeqAddChatMessage(f) ==
    \E req \in Named(MutationRequests, "addChatMessage"), rOk, wOk \in BOOLEAN :
        SeqMutate(f, req, rOk, wOk)

SeqClearRoleChat(f) ==
    \E req \in Named(MutationRequests, "clearRoleChat"), rOk, wOk \in BOOLEAN :
        SeqMutate(f, req, rOk, wOk)

\* resetAppState: no read; the initial state is written and returned.
SeqResetAppState(f) ==
    \E wOk \in BOOLEAN :
        /\ nOps < MaxOps
        /\ nFaults + Faults(TRUE, wOk) <= MaxFaults
        /\ coll' = WriteState(coll, f, getInitialState, wOk)
        /\ last' = [name |-> "resetAppState", forgeId |-> f, req |-> ResetRequest,
                    before |-> coll,
                    read |-> "none", write |-> IF wOk THEN "ok" ELSE "failed",
                    status |-> "ok", state |-> getInitialState]
        /\ nOps' = nOps + 1
        /\ nFaults' = nFaults + Faults(TRUE, wOk)
        /\ UNCHANGED <<clock, procs, poller, http, pipe, prompts, client>>

SeqNext ==
    \/ Tick
    \/ \E f \in OneForge : SeqGetAppState(f)
    \/ \E f \in OneForge : SeqGetRoleChat(f)
    \/ \E f \in OneForge : SeqAddContribution(f)
    \/ \E f \in OneForge : SeqAddSynthesis(f)
    \/ \E f \in OneForge : SeqAddTodos(f)
    \/ \E f \in OneForge : SeqUpdateRoles(f)
    \/ \E f \in OneForge : SeqUpdateGoal(f)
    \/ \E f \in OneForge : SeqAddChatMessage(f)
    \/ \E f \in OneForge : SeqClearRoleChat(f)
    \/ \E f \in OneForge : SeqResetAppState(f)

SeqSpec == Init /\ [][SeqNext]_vars

----------------------------------------------------------------------------
(* Spec: request handlers running concurrently.  A handler is suspended at  *)
(* each database call (pc names the call it waits for); what it runs        *)
(* between two calls is one step.  The arguments of a mutation are first    *)
(* used after readState has returned, and are drawn there.                  *)

Names(reqs) == {req.name : req \in reqs}

Pending(forgeId) ==
    {q \in Procs : procs[q].pc = "replaceOne" /\ procs[q].forgeId = forgeId}

\* An operation is called and runs up to its first database call.
Call(p, forgeIds) ==
    \E f \in forgeIds,
       name \in Names(ReadRequests) \cup Names(MutationRequests) \cup {"resetAppState"} :
        /\ procs[p].pc \in {"idle", "done"}
        /\ nOps < MaxCalls
        /\ nOps' = nOps + 1
        /\ procs' = [q \in Procs |->
              IF q # p
              THEN [procs[q] EXCEPT !.overlap = @ \ {p}]
              ELSE IF name = "resetAppState"
              THEN [IdleProc EXCEPT !.pc = "replaceOne", !.forgeId = f,
                                    !.req = ResetRequest, !.status = "ok",
                                    !.state = getInitialState]
              ELSE [IdleProc EXCEPT !.pc = "findOne", !.forgeId = f,
                                    !.req = [name |-> name]]]
        /\ UNCHANGED <<coll, clock, nFaults, last, poller, http, pipe, prompts, client>>

\* readState has returned `state`; the handler runs up to writeState's
\* database call, or to its end.
AfterRead(p, state, how) ==
    LET me == procs[p]
    IN  IF me.req.name \in Names(ReadRequests)
        THEN \E req \in Named(ReadRequests, me.req.name) :
                procs' = [procs EXCEPT ![p] =
                    [me EXCEPT !.pc = "done", !.req = req, !.read = how,
                               !.overlap = Pending(me.forgeId) \ {p},
                               !.status = "ok", !.state = state]]
        ELSE \E req \in Named(MutationRequests, me.req.name) :
                LET m == Modify(req, state, clock)
                IN  procs' = [procs EXCEPT ![p] =
                        [me EXCEPT !.pc = IF m.status = "ok" THEN "replaceOne"
                                          ELSE "done",
                                   !.req = req, !.read = how,
                                   !.overlap = Pending(me.forgeId) \ {p},
                                   !.status = m.status, !.state = m.state]]

\* The database answers readState's findOne.
FindOneStep(p) ==
    \E dbOk \in BOOLEAN :
        LET me == procs[p]
            found == FindOne(coll, DocId(me.forgeId))
        IN  /\ me.pc = "findOne"
            /\ nFaults + Faults(dbOk, TRUE) <= MaxFaults
            /\ nFaults' = nFaults + Faults(dbOk, TRUE)
            /\ IF ~dbOk
               THEN AfterRead(p, getInitialState, "failed")
               ELSE IF found # {}
               THEN AfterRead(p, StateOf(CHOOSE d \in found : TRUE), "found")
               ELSE procs' = [procs EXCEPT ![p].pc = "insertOne"]
            /\ UNCHANGED <<coll, clock, nOps, last, poller, http, pipe, prompts, client>>

\* The database answers readState's insertOne.
InsertOneStep(p) ==
    \E dbOk \in BOOLEAN :
        LET me == procs[p]
            ins == InsertOne(coll, ToDoc(me.forgeId, getInitialState))
        IN  /\ me.pc = "insertOne"
            /\ nFaults + Faults(dbOk, TRUE) <= MaxFaults
            /\ nFaults' = nFaults + Faults(dbOk, TRUE)
            /\ coll' = IF dbOk THEN ins.coll ELSE coll
            /\ AfterRead(p, getInitialState,
                         IF dbOk /\ ins.ok THEN "created" ELSE "failed")
            /\ UNCHANGED <<clock, nOps, last, poller, http, pipe, prompts, client>>

\* The database answers writeState's replaceOne; the operation returns.
ReplaceOneStep(p) ==
    \E dbOk \in BOOLEAN :
        LET me == procs[p]
        IN  /\ me.pc = "replaceOne"
            /\ nFaults + Faults(TRUE, dbOk) <= MaxFaults
            /\ nFaults' = nFaults + Faults(TRUE, dbOk)
            /\ coll' = WriteState(coll, me.forgeId, me.state, dbOk)
            /\ procs' = [procs EXCEPT ![p] =
                  [me EXCEPT !.pc = "done",
                             !.write = IF dbOk THEN "ok" ELSE "failed"]]
            /\ UNCHANGED <<clock, nOps, last, poller, http, pipe, prompts, client>>

Next ==
    \/ Tick
    \/ \E p \in Procs : Call(p, OneForge)
    \/ \E p \in Procs : FindOneStep(p)
    \/ \E p \in Procs : InsertOneStep(p)
    \/ \E p \in Procs : ReplaceOneStep(p)

Spec == Init /\ [][Next]_vars

\* ResetSpec: the handlers of POST /api/contributions, PUT /api/goal and
\* POST /api/reset on one session.  A reset keeps the collection of the
\* moment it was called, for comparison.
ResetCall(p) ==
    \E f \in OneForge,
       name \in {"addContribution", "updateGoal", "resetAppState"} :
        /\ procs[p].pc \in {"idle", "done"}
        /\ nOps < MaxResetCalls
        /\ nOps' = nOps + 1
        /\ procs' = [q \in Procs |->
              IF q # p
              THEN [procs[q] EXCEPT !.overlap = @ \ {p}]
              ELSE IF name = "resetAppState"
              THEN [IdleProc EXCEPT !.pc = "replaceOne", !.forgeId = f,
                                    !.req = ResetRequest, !.status = "ok",
                                    !.state = getInitialState,
                                    !.before = coll]
              ELSE [IdleProc EXCEPT !.pc = "findOne", !.forgeId = f,
                                    !.req = [name |-> name]]]
        /\ UNCHANGED <<coll, clock, nFaults, last, poller, http, pipe, prompts,
                       client>>

ResetNext ==
    \/ \E p \in Procs : ResetCall(p)
    \/ \E p \in Procs : FindOneStep(p)
    \/ \E p \in Procs : InsertOneStep(p)
    \/ \E p \in Procs : ReplaceOneStep(p)

ResetSpec == Init /\ [][ResetNext]_vars

\* IsoSpec: the same handlers, working on two sessions.
IsoNext ==
    \/ Tick
    \/ \E p \in Procs : Call(p, ForgeIds)
    \/ \E p \in Procs : FindOneStep(p)
    \/ \E p \in Procs : InsertOneStep(p)
    \/ \E p \in Procs : ReplaceOneStep(p)

IsoSpec == Init /\ [][IsoNext]_vars

----------------------------------------------------------------------------
(* PollSpec: handleSynthesize and its poller (app/page.tsx), against the    *)
(* session "a", which the backend fills through addSynthesis and addTodos.  *)

MaxAttempts == 20

PollForge == "a"

\* data.synthesisId of the synthesize response (undefined when it has none)
Targets == SynthIds \cup {Undefined}

\* (mutant) the briefing set is not looked at
IsCompleteSynthesisOnly(newState, target) ==
    \E i \in 1..Len(newState.syntheses) : newState.syntheses[i].id = target

\* targetSynthesis && targetTodos && targetTodos.length > 0
IsComplete(newState, target) ==
    LET i == FindIndex(newState.syntheses, "id", target)
    IN  /\ i > 0
        /\ target \in DOMAIN newState.todos
        /\ Len(newState.todos[target]) > 0

\* The user presses Synthesize (the UI holds a contribution, a goal and a
\* forgeId; otherwise the handler returns at once): the loading indicator
\* is set and POST /api/synthesize is sent.
HandleSynthesize ==
    /\ poller.pc = "idle"
    /\ poller' = [poller EXCEPT !.pc = "synthesizing", !.isLoading = TRUE]
    /\ UNCHANGED <<coll, clock, nOps, nFaults, procs, last, http, pipe, prompts, client>>

\* POST /api/synthesize answers.  An OK answer starts the poller, whose
\* first poll() runs up to its fetch; any other ends in the catch branch.
SynthesizeReturns ==
    \E ok \in BOOLEAN, target \in Targets :
        /\ poller.pc = "synthesizing"
        /\ ~ok => target = Undefined
        /\ poller' = IF ok
                     THEN [poller EXCEPT !.pc = "fetching", !.attempts = 0,
                                         !.target = target, !.fetches = 1]
                     ELSE [poller EXCEPT !.pc = "failed", !.isLoading = FALSE]
        /\ UNCHANGED <<coll, clock, nOps, nFaults, procs, last, http, pipe, prompts, client>>

\* (mutant) attempts++ moved into the try block, after the completion test:
\* a fetch that throws or answers non-OK is not counted.
FetchReturnsCountingOkOnly ==
    \E outcome \in {"networkError", "notOk", "ok"}, dbOk \in BOOLEAN :
        LET r == ReadState(coll, PollForge, dbOk)
            newState == r.state
        IN  /\ poller.pc = "fetching"
            /\ outcome # "ok" => dbOk
            /\ coll' = IF outcome = "ok" THEN r.coll ELSE coll
            /\ poller' =
                 IF outcome = "ok" /\ IsComplete(newState, poller.target)
                 THEN [poller EXCEPT
                         !.pc = "completed",
                         !.syntheses = newState.syntheses,
                         !.todos = newState.todos,
                         !.overallContext =
                             newState.syntheses[
                                 FindIndex(newState.syntheses, "id",
                                           poller.target)].content,
                         !.isLoading = FALSE,
                         !.fetched = [outcome |-> outcome, state |-> newState]]
                 ELSE [poller EXCEPT
                         !.pc = "waiting",
                         !.attempts = IF outcome = "ok" THEN @ + 1 ELSE @,
                         !.fetched = [outcome |-> outcome,
                                      state |-> IF outcome = "ok" THEN newState
                                                ELSE getInitialState]]
            /\ UNCHANGED <<clock, nOps, nFaults, procs, last, http, pipe, prompts, client>>

\* GET /api/state answers the poller: the rest of poll() runs.
FetchReturns ==
    \E outcome \in {"networkError", "notOk", "ok"}, dbOk \in BOOLEAN :
        LET r == ReadState(coll, PollForge, dbOk)
            newState == r.state
        IN  /\ poller.pc = "fetching"
            /\ outcome # "ok" => dbOk
            /\ coll' = IF outcome = "ok" THEN r.coll ELSE coll
            /\ poller' =
                 IF outcome = "ok" /\ IsComplete(newState, poller.target)
                 THEN [poller EXCEPT
                         !.pc = "completed",
                         !.syntheses = newState.syntheses,
                         !.todos = newState.todos,
                         !.overallContext =
                             newState.syntheses[
                                 FindIndex(newState.syntheses, "id",
                                           poller.target)].content,
                         !.isLoading = FALSE,
                         !.fetched = [outcome |-> outcome, state |-> newState]]
                 ELSE [poller EXCEPT
                         !.pc = "waiting",
                         !.attempts = @ + 1,
                         !.fetched = [outcome |-> outcome,
                                      state |-> IF outcome = "ok" THEN newState
                                                ELSE getInitialState]]
            /\ UNCHANGED <<clock, nOps, nFaults, procs, last, http, pipe, prompts, client>>

\* (mutant) the timeout branch returns without setIsLoading(false)
PollAgainKeepLoading ==
    /\ poller.pc = "waiting"
    /\ poller' = IF poller.attempts >= MaxAttempts
                 THEN [poller EXCEPT !.pc = "timedOut"]
                 ELSE [poller EXCEPT !.pc = "fetching", !.fetches = @ + 1]
    /\ UNCHANGED <<coll, clock, nOps, nFaults, procs, last, http, pipe, prompts, client>>

\* setTimeout(poll, 3000) fires: poll() runs up to its fetch, or gives up.
PollAgain ==
    /\ poller.pc = "waiting"
    /\ poller' = IF poller.attempts >= MaxAttempts
                 THEN [poller EXCEPT !.pc = "timedOut", !.isLoading = FALSE]
                 ELSE [poller EXCEPT !.pc = "fetching", !.fetches = @ + 1]
    /\ UNCHANGED <<coll, clock, nOps, nFaults, procs, last, http, pipe, prompts, client>>

\* The backend stores a synthesis, or a briefing set; the session is reset.
BackendAddSynthesis ==
    \E req \in Named(MutationRequests, "addSynthesis") :
        SeqMutate(PollForge, req, TRUE, TRUE)

BackendAddTodos ==
    \E req \in Named(MutationRequests, "addTodos") :
        SeqMutate(PollForge, req, TRUE, TRUE)

PollNext ==
    \/ HandleSynthesize
    \/ SynthesizeReturns
    \/ FetchReturns
    \/ PollAgain
    \/ BackendAddSynthesis
    \/ BackendAddTodos

PollSpec == Init /\ [][PollNext]_vars

\* The browser answers every fetch (with a response or a rejection) and
\* fires every timer it was given.
PollFairness ==
    /\ WF_vars(SynthesizeReturns)
    /\ WF_vars(FetchReturns)
    /\ WF_vars(PollAgain)

PollLiveSpec == PollSpec /\ PollFairness

----------------------------------------------------------------------------
(* RouteSpec: the route handlers of app/api, one request at a time.  A     *)
(* store route runs in one step; a route that calls the AI service waits   *)
(* for the service's answer.                                               *)

StoreRoutes == {"state", "goal", "roles", "contributions", "reset"}
AiRoutes == {"synthesize", "chat"}

\* What request.json() makes of the body (the kind of a request): it
\* rejects when the body is not JSON ("unparsable"); the JSON value null
\* parses, and destructuring it throws a TypeError ("null"); an "object"
\* gives its fields, undefined when absent.

ForgeIdFields == {Undefined, "", "a"}

\* The value of a body field: absent, a string, an array, or a boolean.
Absent == [undefined |-> TRUE]
Str(v) == [string |-> v]
Arr(v) == [array |-> v]
Bool(v) == [boolean |-> v]

\* !value is false
TruthyField(v) ==
    CASE "string" \in DOMAIN v -> v.string # ""
      [] "array" \in DOMAIN v -> TRUE
      [] "boolean" \in DOMAIN v -> v.boolean
      [] OTHER -> FALSE

\* The fields the handler of a route destructures from the body.
Fields(route) ==
    CASE route = "goal" -> {"goal"}
      [] route = "roles" -> {"roles"}
      [] route = "contributions" -> {"authorId", "text"}
      [] route = "chat" -> {"roleId", "message", "isQuestion"}
      [] OTHER -> {}

FieldValues(field) ==
    CASE field = "goal" -> {Absent, Str("")} \cup {Str(g) : g \in Goals}
      [] field = "roles" -> {Absent, Str("r")} \cup {Arr(r) : r \in RoleLists}
      [] field = "authorId" -> {Absent} \cup {Str(a) : a \in AuthorIds}
      [] field = "text" -> {Absent, Str("")} \cup {Str(t) : t \in Texts}
      [] field = "roleId" -> {Absent, Str("1")}
      [] field = "message" -> {Absent} \cup {Str(m) : m \in Messages}
      [] field = "isQuestion" -> {Absent, Bool(FALSE), Bool(TRUE)}

\* GET /api/state carries forgeId in the query: searchParams.get gives
\* null when the parameter is absent.  The other routes carry a body.
RouteRequests ==
    {[route |-> "state", kind |-> "query", forgeId |-> f,
      fields |-> [x \in {} |-> Absent]] : f \in {Null, "", "a"}}
    \cup UNION {
        {[route |-> rt, kind |-> "object", forgeId |-> f, fields |-> fs] :
            f \in ForgeIdFields,
            fs \in [Fields(rt) -> UNION {FieldValues(x) : x \in Fields(rt)}]}
        : rt \in (StoreRoutes \cup AiRoutes) \ {"state"}}
    \cup {[route |-> rt, kind |-> k, forgeId |-> Undefined,
           fields |-> [x \in Fields(rt) |-> Absent]] :
            rt \in (StoreRoutes \cup AiRoutes) \ {"state"},
            k \in {"unparsable", "null"}}

WellTyped(req) ==
    \A x \in DOMAIN req.fields : req.fields[x] \in FieldValues(x)

\* NextResponse.json(body, { status })
Json(status, body) == [status |-> status, body |-> body]

\* The 400 answers of a route, in the order of its tests; "" when the
\* request passes them.
Invalid(req) ==
    LET f == req.fields
    IN  CASE req.route = "state" ->
                IF ~Truthy(req.forgeId) THEN "forgeId parameter is required"
                ELSE ""
          [] req.route = "chat" ->
                IF ~Truthy(req.forgeId) \/ ~TruthyField(f["roleId"])
                   \/ ~TruthyField(f["message"])
                THEN "forgeId, roleId, and message are required" ELSE ""
          [] ~Truthy(req.forgeId) -> "forgeId is required"
          [] req.route = "goal" /\ ~TruthyField(f["goal"]) -> "Goal is required"
          [] req.route = "roles"
             /\ (~TruthyField(f["roles"]) \/ "array" \notin DOMAIN f["roles"]) ->
                "Roles array is required"
          [] req.route = "contributions"
             /\ (~TruthyField(f["authorId"]) \/ ~TruthyField(f["text"])) ->
                "Author ID and text are required"
          [] OTHER -> ""

\* The message of a route's catch branch.
CatchMessage(route) ==
    CASE route = "state" -> "Failed to get state"
      [] route = "goal" -> "Failed to update goal"
      [] route = "roles" -> "Failed to update roles"
      [] route = "contributions" -> "Failed to add contribution"
      [] route = "reset" -> "Failed to reset state"
      [] route = "synthesize" -> "Failed to call synthesis service"
      [] route = "chat" -> "Failed to call chat service"

\* (mutant) a handler without its try/catch: the error leaves the handler
\* and no response is built.
CatchRethrow(route, error) ==
    [response |-> NoResponse, caught |-> "none", escaped |-> TRUE]

\* catch (error): the error is logged and answered with status 500; the
\* synthesize and chat routes add the error's message as details.
Catch(route, error) ==
    [response |-> Json(500, IF route \in AiRoutes
                            THEN [error |-> CatchMessage(route),
                                  details |-> error]
                            ELSE [error |-> CatchMessage(route)]),
     caught |-> error, escaped |-> FALSE]

Respond(response) ==
    [response |-> response, caught |-> "none", escaped |-> FALSE]

\* The store operation a store route calls with a request that passed its
\* tests.
StoreRequest(req) ==
    CASE req.route = "state" -> [name |-> "getAppState"]
      [] req.route = "reset" -> ResetRequest
      [] req.route = "goal" ->
            [name |-> "updateGoal", goal |-> req.fields["goal"].string]
      [] req.route = "roles" ->
            [name |-> "updateRoles", roles |-> req.fields["roles"].array]
      [] req.route = "contributions" ->
            [name |-> "addContribution",
             authorId |-> req.fields["authorId"].string,
             text |-> req.fields["text"].string]

\* A store operation as a route awaits it: readState, the change,
\* writeState.  status "error" is the Error it throws.
StoreCall(c, forgeId, op, rOk, wOk, now) ==
    LET r == ReadState(c, forgeId, rOk)
        m == Modify(op, r.state, now)
    IN  CASE op.name = "getAppState" ->
                [status |-> "ok", state |-> r.state, coll |-> r.coll]
          [] op.name = "resetAppState" ->
                [status |-> "ok", state |-> getInitialState,
                 coll |-> WriteState(c, forgeId, getInitialState, wOk)]
          [] OTHER ->
                [status |-> m.status, state |-> m.state,
                 coll |-> IF m.status = "ok"
                          THEN WriteState(r.coll, forgeId, m.state, wOk)
                          ELSE r.coll]

Begins == http.pc \in {"idle", "responded"} /\ nOps < MaxOps

\* GET /api/state, PUT /api/goal, PUT /api/roles, POST /api/contributions,
\* POST /api/reset: the whole handler.
StoreRoute(route) ==
    \E req \in RouteRequests, rOk, wOk \in BOOLEAN :
        LET parsed == req.kind \in {"query", "object"}
            calls == parsed /\ Invalid(req) = ""
            call == StoreCall(coll, req.forgeId, StoreRequest(req), rOk, wOk, clock)
            out == IF ~parsed THEN Catch(route, req.kind)
                   ELSE IF ~calls THEN Respond(Json(400, [error |-> Invalid(req)]))
                   ELSE IF call.status = "error" THEN Catch(route, "Role not found")
                   ELSE Respond(Json(200, [state |-> call.state]))
        IN  /\ Begins
            /\ req.route = route
            /\ WellTyped(req)
            /\ ~calls => rOk /\ wOk
            /\ nFaults + Faults(rOk, wOk) <= MaxFaults
            /\ coll' = IF calls THEN call.coll ELSE coll
            /\ http' = [pc |-> "responded", req |-> req,
                        response |-> out.response,
                        storeCalls |-> IF calls THEN 1 ELSE 0,
                        aiCalls |-> 0,
                        caught |-> out.caught, escaped |-> out.escaped,
                        isQuestion |-> FALSE, service |-> "none",
                        modelCalls |-> 0]
            /\ nOps' = nOps + 1
            /\ nFaults' = nFaults + Faults(rOk, wOk)
            /\ UNCHANGED <<clock, procs, last, poller, pipe, prompts, client>>

\* (mutant) the default of the destructuring is true
IsQuestionDefaultTrue(req) ==
    IF req.route # "chat" THEN FALSE
    ELSE IF req.fields["isQuestion"] = Absent THEN TRUE
    ELSE req.fields["isQuestion"].boolean

\* is_question of the body sent to the AI service: `isQuestion = false` in
\* the destructuring gives false when the field is omitted.
IsQuestion(req) ==
    IF req.route # "chat" THEN FALSE
    ELSE IF req.fields["isQuestion"] = Absent THEN FALSE
    ELSE req.fields["isQuestion"].boolean

\* POST /api/synthesize, POST /api/chat: the handler up to its fetch of the
\* AI service.
AiRoute(route) ==
    \E req \in RouteRequests :
        LET parsed == req.kind = "object"
            calls == parsed /\ Invalid(req) = ""
            out == IF ~parsed THEN Catch(route, req.kind)
                   ELSE Respond(Json(400, [error |-> Invalid(req)]))
        IN  /\ Begins
            /\ req.route = route
            /\ WellTyped(req)
            /\ http' = IF calls
                       THEN [pc |-> "awaitingAi", req |-> req,
                             response |-> NoResponse,
                             storeCalls |-> 0, aiCalls |-> 1,
                             caught |-> "none", escaped |-> FALSE,
                             isQuestion |-> IsQuestion(req),
                             service |-> "none", modelCalls |-> 0]
                       ELSE [pc |-> "responded", req |-> req,
                             response |-> out.response,
                             storeCalls |-> 0, aiCalls |-> 0,
                             caught |-> out.caught, escaped |-> out.escaped,
                             isQuestion |-> FALSE, service |-> "none",
                             modelCalls |-> 0]
            /\ nOps' = nOps + 1
            /\ UNCHANGED <<coll, clock, nFaults, procs, last, poller, pipe, prompts, client>>

\* The statuses of the AI service's non-OK answers.
AiStatuses == {401, 503}

\* The fetch of the AI service settles: it rejects, or answers non-OK (the
\* status is passed on, whether or not the error body parses), or answers
\* OK with a body that parses or does not.
AiAnswers ==
    \E outcome \in {"rejected", "notOk", "ok"}, status \in AiStatuses,
       json \in BOOLEAN :
        LET route == http.req.route
            out == CASE outcome = "rejected" -> Catch(route, "fetch failed")
                     [] outcome = "notOk" ->
                            Respond(Json(status,
                                [error |-> "FastAPI service error",
                                 details |-> IF json THEN "errorData"
                                             ELSE "Unknown error"]))
                     [] outcome = "ok" /\ json ->
                            Respond(Json(200, [success |-> TRUE]))
                     [] OTHER -> Catch(route, "invalid json")
        IN  /\ http.pc = "awaitingAi"
            /\ outcome = "rejected" => json
            /\ outcome # "notOk" => status = 401
            /\ http' = [http EXCEPT !.pc = "responded",
                                    !.response = out.response,
                                    !.caught = out.caught,
                                    !.escaped = out.escaped]
            /\ UNCHANGED <<coll, clock, nOps, nFaults, procs, last, poller, pipe, prompts, client>>

\* The AI service's chat endpoint takes the request the chat route sent.
\* With is_question false the message is logged as a contribution of the
\* role and nothing else is done; with is_question true the model is
\* called and, when it answers, its text is appended as an ai ChatMessage
\* to the role's chat.
ChatService ==
    \E answered \in BOOLEAN :
        LET req == http.req
            op == IF http.isQuestion
                  THEN [name |-> "addChatMessage",
                        roleId |-> req.fields["roleId"].string,
                        message |-> "answer", author |-> "ai",
                        briefingId |-> Undefined]
                  ELSE [name |-> "addContribution",
                        authorId |-> req.fields["roleId"].string,
                        text |-> req.fields["message"].string]
            call == StoreCall(coll, req.forgeId, op, TRUE, TRUE, clock)
        IN  /\ http.pc = "awaitingAi"
            /\ req.route = "chat"
            /\ http.service = "none"
            /\ ~http.isQuestion => answered
            /\ coll' = IF answered THEN call.coll ELSE coll
            /\ http' = [http EXCEPT
                          !.service = IF ~http.isQuestion THEN "logged"
                                      ELSE IF answered THEN "answered"
                                      ELSE "failed",
                          !.modelCalls = IF http.isQuestion THEN @ + 1 ELSE @]
            /\ UNCHANGED <<clock, nOps, nFaults, procs, last, poller, pipe, prompts, client>>

ChatNext ==
    \/ Tick
    \/ AiRoute("chat")
    \/ ChatService
    \/ AiAnswers

ChatSpec == Init /\ [][ChatNext]_vars

RouteNext ==
    \/ StoreRoute("state")
    \/ StoreRoute("goal")
    \/ StoreRoute("roles")
    \/ StoreRoute("contributions")
    \/ StoreRoute("reset")
    \/ AiRoute("synthesize")
    \/ AiRoute("chat")
    \/ AiAnswers

RouteSpec == Init /\ [][RouteNext]_vars

\* The AI service's fetch settles: it answers or the connection fails.
RouteLiveSpec == RouteSpec /\ WF_vars(AiAnswers)

----------------------------------------------------------------------------
(* PipeSpec: the AI service's background pipeline (webhook, triage, action, *)
(* persistence), one run at a time, against the session store; users go on  *)
(* adding contributions while a run is under way.                          *)

\* The session of the run's forgeId as the pipeline reads it
StoredSession == ReadState(coll, PollForge, TRUE).state

Actions == {"LOG_ONLY", "ANSWER_DIRECTLY", "SYNTHESIZE"}

\* What the triage prompt's model call can return as text: JSON with an
\* action of the closed set, JSON with another action or none, or text
\* that is not JSON.
TriageOutputs ==
    {[json |-> TRUE, action |-> a] : a \in Actions \cup {"ESCALATE", Undefined}}
    \cup {[json |-> FALSE, action |-> ""]}

TriageParseError == "TriageParseError"

\* The Triage Classifier's parse of the model's text.
ParseTriage(output) ==
    IF output.json /\ output.action \in Actions THEN output.action
    ELSE TriageParseError

\* (mutant) the caller lets the parse error through as the action
DecideNoFallback(output) == ParseTriage(output)

\* The caller of the classifier falls back to LOG_ONLY on a parse error.
Decide(output) ==
    IF ParseTriage(output) = TriageParseError THEN "LOG_ONLY"
    ELSE ParseTriage(output)

\* The failures of the Model Invoker, and of reading the synthesis JSON.
ModelFailures == {"ModelUnavailableError", "ModelTimeoutError"}
MalformedJson == "malformed JSON"

\* The briefing sets a synthesis call returns
ResultBriefings == BriefingSets \ {<<>>}

AnswerText == "answer"

Logged(event) == \E i \in 1..Len(pipe.log) : pipe.log[i] = event
Position(event) == CHOOSE i \in 1..Len(pipe.log) : pipe.log[i] = event
Count(event) == Cardinality({i \in 1..Len(pipe.log) : pipe.log[i] = event})

\* POST /api/webhook/process-contribution {forgeId, newContributionId}: 202
\* at once, and the pipeline run for the contribution is scheduled.
WebhookReceive ==
    \E i \in 1..Len(StoredSession.contributions) :
        LET c == StoredSession.contributions[i]
        IN  /\ pipe.pc \in {"idle", "done", "aborted"}
            /\ nOps < MaxOps
            /\ pipe' = [IdlePipe EXCEPT !.pc = "scheduled",
                                        !.forgeId = PollForge,
                                        !.contributionId = c.id,
                                        !.roleId = c.authorId,
                                        !.before = StoredSession]
            /\ nOps' = nOps + 1
            /\ UNCHANGED <<coll, clock, nFaults, procs, last, poller, http, prompts, client>>

\* The Triage Classifier invokes the model with the triage prompt.
TriageCall ==
    /\ pipe.pc = "scheduled"
    /\ pipe' = [pipe EXCEPT !.pc = "triaging", !.log = Append(@, "triageCall")]
    /\ UNCHANGED <<coll, clock, nOps, nFaults, procs, last, poller, http, prompts, client>>

\* The triage call returns: a failure of the Model Invoker aborts the run;
\* otherwise the text is parsed and the action decided.
TriageReturns ==
    \E failed \in BOOLEAN, failure \in ModelFailures, output \in TriageOutputs :
        /\ pipe.pc = "triaging"
        /\ pipe' = IF failed
                   THEN [pipe EXCEPT !.pc = "aborted", !.failure = failure,
                                     !.log = Append(@, "triageFailed")]
                   ELSE [pipe EXCEPT !.pc = "triaged", !.output = output,
                                     !.action = Decide(output),
                                     !.log = Append(@, "triageDecided")]
        /\ UNCHANGED <<coll, clock, nOps, nFaults, procs, last, poller, http, prompts, client>>

\* (mutant) the synthesize branch persists before it calls the model
ExecuteSynthesizePersistingFirst ==
    /\ pipe.pc = "triaged"
    /\ pipe.action = "SYNTHESIZE"
    /\ \E s \in SynthIds :
        /\ FindIndex(StoredSession.syntheses, "id", s) = 0
        /\ pipe' = [pipe EXCEPT !.pc = "persistSynthesis",
                                !.result = [synthesisId |-> s,
                                            briefings |-> << TodoItem("1", "b1") >>,
                                            text |-> "c"],
                                !.log = Append(@, "SYNTHESIZE")]
    /\ UNCHANGED <<coll, clock, nOps, nFaults, procs, last, poller, http, prompts, client>>

\* The Action Executor's three transitions.  LOG_ONLY: the contribution is
\* logged, nothing else is done.
ExecuteLogOnly ==
    /\ pipe.pc = "triaged"
    /\ pipe.action = "LOG_ONLY"
    /\ pipe' = [pipe EXCEPT !.pc = "done", !.log = Append(@, "LOG_ONLY")]
    /\ UNCHANGED <<coll, clock, nOps, nFaults, procs, last, poller, http, prompts, client>>

\* ANSWER_DIRECTLY: the direct_response_agent prompt is sent to the model.
ExecuteAnswerDirectly ==
    /\ pipe.pc = "triaged"
    /\ pipe.action = "ANSWER_DIRECTLY"
    /\ pipe' = [pipe EXCEPT !.pc = "calling",
                            !.log = @ \o <<"ANSWER_DIRECTLY", "actionCall">>]
    /\ UNCHANGED <<coll, clock, nOps, nFaults, procs, last, poller, http, prompts, client>>

\* SYNTHESIZE: the synthesis_facilitator_default prompt is sent to the model.
ExecuteSynthesize ==
    /\ pipe.pc = "triaged"
    /\ pipe.action = "SYNTHESIZE"
    /\ pipe' = [pipe EXCEPT !.pc = "calling",
                            !.log = @ \o <<"SYNTHESIZE", "actionCall">>]
    /\ UNCHANGED <<coll, clock, nOps, nFaults, procs, last, poller, http, prompts, client>>

\* (mutant) a failed action call is made once more before the run gives up
ActionReturnsRetrying ==
    \E failure \in ModelFailures \cup {MalformedJson, "none"},
       s \in SynthIds, b \in ResultBriefings :
        LET ok == failure = "none"
            synth == pipe.action = "SYNTHESIZE"
        IN  /\ pipe.pc = "calling"
            /\ failure = MalformedJson => synth
            /\ (ok /\ synth) => FindIndex(StoredSession.syntheses, "id", s) = 0
            /\ ~(ok /\ synth) =>
                  s = "s1" /\ b = << TodoItem("1", "b1") >>
            /\ pipe' =
                 IF ~ok /\ Count("actionCall") < 2
                 THEN [pipe EXCEPT !.failure = failure,
                                   !.log = @ \o <<"actionFailed", "actionCall">>]
                 ELSE IF ~ok
                 THEN [pipe EXCEPT !.pc = "aborted", !.failure = failure,
                                   !.log = Append(@, "actionFailed")]
                 ELSE [pipe EXCEPT
                         !.pc = IF synth THEN "persistSynthesis"
                                ELSE "persistChat",
                         !.result = IF synth
                                    THEN [synthesisId |-> s, briefings |-> b,
                                          text |-> "c"]
                                    ELSE [NoResult EXCEPT !.text = AnswerText],
                         !.log = Append(@, "actionReturned")]
            /\ UNCHANGED <<coll, clock, nOps, nFaults, procs, last, poller, http, prompts, client>>

\* The action's model call returns.  A failure (of the Model Invoker, or
\* malformed JSON in the synthesis branch) is logged and ends the run with
\* nothing persisted; a result goes on to be persisted.  The Synthesis gets
\* a new id.
ActionReturns ==
    \E failure \in ModelFailures \cup {MalformedJson, "none"},
       s \in SynthIds, b \in ResultBriefings :
        LET ok == failure = "none"
            synth == pipe.action = "SYNTHESIZE"
        IN  /\ pipe.pc = "calling"
            /\ failure = MalformedJson => synth
            /\ (ok /\ synth) =>
                  FindIndex(StoredSession.syntheses, "id", s) = 0
            /\ ~(ok /\ synth) =>
                  s = "s1" /\ b = << TodoItem("1", "b1") >>
            /\ pipe' =
                 IF ~ok
                 THEN [pipe EXCEPT !.pc = "aborted", !.failure = failure,
                                   !.log = Append(@, "actionFailed")]
                 ELSE [pipe EXCEPT
                         !.pc = IF synth THEN "persistSynthesis"
                                ELSE "persistChat",
                         !.result = IF synth
                                    THEN [synthesisId |-> s, briefings |-> b,
                                          text |-> "c"]
                                    ELSE [NoResult EXCEPT !.text = AnswerText],
                         !.log = Append(@, "actionReturned")]
            /\ UNCHANGED <<coll, clock, nOps, nFaults, procs, last, poller, http, prompts, client>>

\* A persistence step of the run: one store operation, then the next
\* position of the run.
Persist(at, op, event, next) ==
    \E rOk, wOk \in BOOLEAN :
        LET call == StoreCall(coll, pipe.forgeId, op, rOk, wOk, clock)
        IN  /\ pipe.pc = at
            /\ nFaults + Faults(rOk, wOk) <= MaxFaults
            /\ coll' = call.coll
            /\ pipe' = [pipe EXCEPT !.pc = next, !.log = Append(@, event)]
            /\ nFaults' = nFaults + Faults(rOk, wOk)
            /\ UNCHANGED <<clock, nOps, procs, last, poller, http, prompts, client>>

\* ANSWER_DIRECTLY: the raw text is appended as an ai ChatMessage to the
\* RoleChat of the contributing role.
PersistChat ==
    Persist("persistChat",
            [name |-> "addChatMessage", roleId |-> pipe.roleId,
             message |-> pipe.result.text, author |-> "ai",
             briefingId |-> Undefined],
            "chatPersisted", "done")

\* SYNTHESIZE (b): the Synthesis is persisted ...
PersistSynthesis ==
    Persist("persistSynthesis",
            [name |-> "addSynthesis",
             synthesis |-> Synthesis(pipe.result.synthesisId)],
            "synthesisPersisted", "persistBriefings")

\* ... then the Briefing set, keyed by the new Synthesis id.
PersistBriefings ==
    Persist("persistBriefings",
            [name |-> "addTodos", synthesisId |-> pipe.result.synthesisId,
             briefings |-> pipe.result.briefings],
            "briefingsPersisted", "done")

\* A user adds a contribution (POST /api/contributions) at any moment.
UserContributes == SeqAddContribution(PollForge)

PipeNext ==
    \/ Tick
    \/ UserContributes
    \/ WebhookReceive
    \/ TriageCall
    \/ TriageReturns
    \/ ExecuteLogOnly
    \/ ExecuteAnswerDirectly
    \/ ExecuteSynthesize
    \/ ActionReturns
    \/ PersistChat
    \/ PersistSynthesis
    \/ PersistBriefings

PipeSpec == Init /\ [][PipeNext]_vars

\* A background run, once scheduled, runs to completion or fails: its
\* model calls return or time out, and its store operations return.
PipeFairness ==
    /\ WF_vars(TriageCall)
    /\ WF_vars(TriageReturns)
    /\ WF_vars(ExecuteLogOnly)
    /\ WF_vars(ExecuteAnswerDirectly)
    /\ WF_vars(ExecuteSynthesize)
    /\ WF_vars(ActionReturns)
    /\ WF_vars(PersistChat)
    /\ WF_vars(PersistSynthesis)
    /\ WF_vars(PersistBriefings)

PipeLiveSpec == PipeSpec /\ PipeFairness

----------------------------------------------------------------------------
(* SeedSpec: the prompt collection, seeded through the Makefile's targets   *)
(* and edited by operators in between.                                     *)

PromptNames == {"contribution_triage_agent", "synthesis_facilitator_default"}

\* A prompt document of the seed script: its template (the version goes
\* with the template) and the model of its parameters.
SeedDoc(t) == [template |-> t, version |-> IF t = "T1" THEN 1 ELSE 2,
               model |-> "m1"]

\* The prompts the seed script holds when it is run: the script is edited
\* between runs (a template changes, a prompt is added).
SeedFiles ==
    UNION {[names -> {SeedDoc("T1"), SeedDoc("T2")}] :
              names \in (SUBSET PromptNames) \ {{}}}

\* (mutant) seeding upserts every prompt of the script
SeedUpserting(docs, defs, force) ==
    [n \in DOMAIN docs \cup DOMAIN defs |->
        IF n \in DOMAIN defs THEN defs[n] ELSE docs[n]]

\* seed-prompts: a name that exists is skipped unless --force is given.
Seed(docs, defs, force) ==
    [n \in DOMAIN docs \cup DOMAIN defs |->
        IF n \in DOMAIN defs /\ (force \/ n \notin DOMAIN docs)
        THEN defs[n] ELSE docs[n]]

\* Whether the arguments of the seed script hold the force flag
HasForce(args) == args = "--force"

Seeds(defs, args) ==
    /\ nOps < MaxOps
    /\ prompts' = [docs |-> Seed(prompts.docs, defs, HasForce(args)),
                   before |-> prompts.docs,
                   lastOp |-> [name |-> "seed", force |-> HasForce(args),
                               defs |-> defs]]
    /\ nOps' = nOps + 1
    /\ UNCHANGED <<coll, clock, nFaults, procs, last, poller, http, pipe, client>>

\* make seed-prompts [ARGS='--force']
MakeSeedPrompts ==
    \E defs \in SeedFiles, args \in {"", "--force"} : Seeds(defs, args)

\* make seed-prompts-force
MakeSeedPromptsForce ==
    \E defs \in SeedFiles : Seeds(defs, "--force")

\* An operator changes the model of a stored prompt.
OperatorEdits ==
    \E n \in DOMAIN prompts.docs :
        /\ nOps < MaxOps
        /\ prompts.docs[n].model = "m1"
        /\ prompts' = [docs |-> [prompts.docs EXCEPT ![n].model = "m2"],
                       before |-> prompts.docs,
                       lastOp |-> [name |-> "edit", force |-> FALSE,
                                   defs |-> NoDocs]]
        /\ nOps' = nOps + 1
        /\ UNCHANGED <<coll, clock, nFaults, procs, last, poller, http, pipe,
                       client>>

SeedNext ==
    \/ MakeSeedPrompts
    \/ MakeSeedPromptsForce
    \/ OperatorEdits

SeedSpec == Init /\ [][SeedNext]_vars

----------------------------------------------------------------------------
(* ClientSpec: the chat input of the page and handleSendMessage.  A        *)
(* handler reads the values of the render it was created in.  React        *)
(* renders the updates made in an event handler before the next event is   *)
(* handled; updates made after an await are rendered later (Render).       *)

ChatInputs == {"", " ", "m1"}

\* String.prototype.trim on the inputs
Trim(m) == IF m = " " THEN "" ELSE m

\* (mutant) the guard without isSendingMessage
ReturnsEarlyIgnoringSend(seen) ==
    \/ Trim(seen.chatMessage) = ""
    \/ seen.selectedRoleId = ""
    \/ seen.forgeId = ""

\* if (!chatMessage.trim() || !selectedRoleId || !forgeId ||
\*     isSendingMessage) return
ReturnsEarly(seen) ==
    \/ Trim(seen.chatMessage) = ""
    \/ seen.selectedRoleId = ""
    \/ seen.forgeId = ""
    \/ seen.isSendingMessage

\* disabled={!chatMessage.trim() || isSendingMessage}
ButtonDisabled(seen) == Trim(seen.chatMessage) = "" \/ seen.isSendingMessage

\* The chat requests in flight, and the calls of handleSendMessage that
\* have not returned
InFlight == {i \in 1..Len(client.sends) : client.sends[i].pc = "chat"}
Running == {i \in 1..Len(client.sends) : client.sends[i].pc \in {"chat", "state"}}

\* useEffect: setForgeId(urlForgeId)
UrlForgeId ==
    /\ client.state.forgeId = ""
    /\ client' = [client EXCEPT !.state.forgeId = "a"]
    /\ UNCHANGED <<coll, clock, nOps, nFaults, procs, last, poller, http, pipe,
                   prompts>>

\* The textarea's onChange: setChatMessage(e.target.value)
OnChange ==
    \E m \in ChatInputs :
        LET st == [client.state EXCEPT !.chatMessage = m]
        IN  /\ client.state.chatMessage # m
            /\ client' = [client EXCEPT !.state = st, !.rendered = st]
            /\ UNCHANGED <<coll, clock, nOps, nFaults, procs, last, poller, http,
                           pipe, prompts>>

\* The role select's onValueChange: setSelectedRoleId
OnValueChange ==
    \E r \in {"1", "2"} :
        LET st == [client.state EXCEPT !.selectedRoleId = r]
        IN  /\ client.state.selectedRoleId # r
            /\ client' = [client EXCEPT !.state = st, !.rendered = st]
            /\ UNCHANGED <<coll, clock, nOps, nFaults, procs, last, poller, http,
                           pipe, prompts>>

\* handleSendMessage up to its first await.  Cmd/Ctrl+Enter in the
\* textarea calls it with isQuestion false; the two buttons call it with
\* false and true, and are disabled while sending or without a message.
HandleSendMessage ==
    \E isQuestion \in BOOLEAN :
        LET seen == client.rendered
            st == [client.state EXCEPT !.isSendingMessage = TRUE]
            body == [forgeId |-> seen.forgeId, roleId |-> seen.selectedRoleId,
                     message |-> Trim(seen.chatMessage),
                     isQuestion |-> isQuestion]
        IN  /\ nOps < MaxOps
            /\ isQuestion => ~ButtonDisabled(seen)
            /\ ~ReturnsEarly(seen) => Len(client.sends) < MaxSends
            /\ nOps' = nOps + 1
            /\ client' =
                  IF ReturnsEarly(seen)
                  THEN [client EXCEPT !.lastCall =
                          [called |-> TRUE, isQuestion |-> isQuestion,
                           issued |-> FALSE]]
                  ELSE [client EXCEPT
                          !.state = st, !.rendered = st,
                          !.sends = Append(@, [pc |-> "chat", body |-> body]),
                          !.lastCall =
                              [called |-> TRUE, isQuestion |-> isQuestion,
                               issued |-> TRUE]]
            /\ UNCHANGED <<coll, clock, nFaults, procs, last, poller, http, pipe,
                           prompts>>

\* The fetch of /api/chat settles: it rejects, answers non-OK, answers OK
\* with a body that does not parse (the catch branch, then finally), or
\* answers OK (the handler goes on to fetch /api/state).
ChatSettles ==
    \E i \in InFlight, outcome \in {"rejected", "notOk", "invalid json", "ok"} :
        /\ client' =
              IF outcome = "ok"
              THEN [client EXCEPT !.sends[i].pc = "state"]
              ELSE [client EXCEPT !.sends[i].pc = "failed",
                                  !.state.isSendingMessage = FALSE]
        /\ UNCHANGED <<coll, clock, nOps, nFaults, procs, last, poller, http,
                       pipe, prompts>>

\* The fetch of /api/state settles, whatever its outcome (its errors are
\* caught on the spot): setChatMessage(""), then finally.
StateSettles ==
    \E i \in Running :
        /\ client.sends[i].pc = "state"
        /\ client' = [client EXCEPT !.sends[i].pc = "sent",
                                    !.state.chatMessage = "",
                                    !.state.isSendingMessage = FALSE]
        /\ UNCHANGED <<coll, clock, nOps, nFaults, procs, last, poller, http,
                       pipe, prompts>>

\* handleReset's request has been answered OK: setSelectedRoleId(""),
\* setChatMessage("")
HandleResetSettles ==
    /\ client.state.forgeId # ""
    /\ client.state.selectedRoleId # "" \/ client.state.chatMessage # ""
    /\ client' = [client EXCEPT !.state.selectedRoleId = "",
                                !.state.chatMessage = ""]
    /\ UNCHANGED <<coll, clock, nOps, nFaults, procs, last, poller, http, pipe,
                   prompts>>

\* React renders the updates that were made outside an event handler.
Render ==
    /\ client.rendered # client.state
    /\ client' = [client EXCEPT !.rendered = client.state]
    /\ UNCHANGED <<coll, clock, nOps, nFaults, procs, last, poller, http, pipe,
                   prompts>>

ClientNext ==
    \/ UrlForgeId
    \/ OnChange
    \/ OnValueChange
    \/ HandleSendMessage
    \/ ChatSettles
    \/ StateSettles
    \/ HandleResetSettles
    \/ Render

ClientSpec == Init /\ [][ClientNext]_vars

\* Every fetch settles.
ClientFairness == WF_vars(ChatSettles) /\ WF_vars(StateSettles)

ClientLiveSpec == ClientSpec /\ ClientFairness

----------------------------------------------------------------------------
(* Properties *)

\* The documents stored for a forgeId
Docs(c, forgeId) == FindOne(c, DocId(forgeId))

\* The session stored for a forgeId, as a successful read returns it: the
\* stored document, or the default session when there is none yet.
Session(c, forgeId) ==
    IF Docs(c, forgeId) = {} THEN getInitialState
    ELSE StateOf(CHOOSE d \in Docs(c, forgeId) : TRUE)

\* The default session as the specification describes it.
DefaultSession ==
    [roles |-> << [name |-> "Konrad", title |-> "Product Lead", id |-> "1"],
                  [name |-> "Eike", title |-> "General Consultant", id |-> "2"] >>,
     contributions |-> <<>>,
     syntheses |-> <<>>,
     todos |-> <<>>,
     roleChats |-> <<>>,
     goal |-> "Create MVP scope for new product idea"]

\* In SeqSpec: the session of the last operation's forgeId before the
\* operation ran, and now.
Before == Session(last.before, last.forgeId)
After == Session(coll, last.forgeId)

\* In SeqSpec: the last operation ran with the document store available.
Available == last.read # "failed" /\ last.write # "failed"

\* A handler whose addContribution has read and written the store and
\* returned without an error.
AddedOk(p) ==
    /\ procs[p].pc = "done"
    /\ procs[p].req.name = "addContribution"
    /\ procs[p].status = "ok"
    /\ procs[p].read \in {"found", "created"}
    /\ procs[p].write = "ok"

\* C1: two addContribution calls on one forgeId that interleave (each reads
\* the session before the other has written it) both return successfully,
\* and the stored session then holds the contributions list of one of the
\* two calls only: when both calls answered with n contributions, the store
\* holds the n contributions of the later writer, not n + 1.
C1_LostUpdate ==
    \A p, q \in Procs :
        ( /\ p # q
          /\ AddedOk(p) /\ AddedOk(q)
          /\ procs[p].forgeId = procs[q].forgeId
          /\ q \in procs[p].overlap
          /\ Len(procs[p].state.contributions) = Len(procs[q].state.contributions) )
        => /\ Docs(coll, procs[p].forgeId) # {}
           /\ Session(coll, procs[p].forgeId).contributions
                \in {procs[p].state.contributions, procs[q].state.contributions}

C1_Witness ==
    /\ AddedOk("p1") /\ AddedOk("p2")
    /\ "p2" \in procs["p1"].overlap
    /\ procs["p1"].req.authorId # procs["p2"].req.authorId
    /\ Len(procs["p1"].state.contributions) = 1
    /\ Len(procs["p2"].state.contributions) = 1
    /\ Session(coll, "a").contributions = procs["p2"].state.contributions

\* C2: resetAppState returns the default session (Konrad/Product Lead and
\* Eike/General Consultant, no contributions, syntheses or todos) whatever
\* was stored, its write stores that session under the same forgeId, and a
\* reset of a session that a reset has just stored changes neither the
\* store nor the returned state.
C2_ResetDefaultIdempotent ==
    last.name = "resetAppState" =>
        /\ last.status = "ok"
        /\ last.state = DefaultSession
        /\ last.write = "ok" =>
              /\ Docs(coll, last.forgeId)
                    = {[_id |-> "forge-" \o last.forgeId] @@ DefaultSession}
              /\ coll \ Docs(coll, last.forgeId)
                    = last.before \ Docs(last.before, last.forgeId)
              /\ Docs(last.before, last.forgeId)
                    = {[_id |-> "forge-" \o last.forgeId] @@ DefaultSession}
                 => coll = last.before

\* The third operation of a run resets a session that holds the default
\* session already.
C2_Witness ==
    /\ last.name = "resetAppState"
    /\ last.write = "ok"
    /\ nOps = 3
    /\ clock = 0
    /\ nFaults = 0
    /\ Docs(last.before, last.forgeId) # {}
    /\ Before = DefaultSession
    /\ After = DefaultSession

\* C3: with the store available, addContribution with an authorId that
\* matches no role of the session throws and leaves the stored session as
\* it was; with an authorId that matches a role it appends exactly one
\* contribution, which carries that role's id, name and title.
C3_AddContributionAuthor ==
    (last.name = "addContribution" /\ Available) =>
        LET a == last.req.authorId
            matching == {i \in 1..Len(Before.roles) : Before.roles[i].id = a}
        IN  IF matching = {}
            THEN /\ last.status = "error"
                 /\ After = Before
            ELSE /\ last.status = "ok"
                 /\ Len(After.contributions) = Len(Before.contributions) + 1
                 /\ IsPrefix(Before.contributions, After.contributions)
                 /\ After = [Before EXCEPT !.contributions = After.contributions]
                 /\ last.state = After
                 /\ LET c == After.contributions[Len(After.contributions)]
                    IN  /\ c.authorId = a
                        /\ c.text = last.req.text
                        /\ \E i \in matching :
                             /\ c.authorName = Before.roles[i].name
                             /\ c.authorTitle = Before.roles[i].title

\* A contribution of an unknown author was refused in a session that
\* holds a contribution.
C3_Witness ==
    /\ last.name = "addContribution"
    /\ last.status = "error"
    /\ last.read = "found"
    /\ Len(After.contributions) = 1

\* The handler p takes this step.
Steps(p) == procs'[p].pc # procs[p].pc

\* C4: a read that finds no document for a forgeId creates the document
\* with the default session and returns that session; no forgeId ever has
\* two documents, also when first accesses run concurrently; a document,
\* once there, stays; and a read that finds the document returns its
\* stored content.
C4_LazyCreation ==
    [][ /\ \A f \in ForgeIds :
            /\ Cardinality(Docs(coll', f)) <= 1
            /\ Docs(coll, f) # {} => Docs(coll', f) # {}
        /\ \A p \in Procs :
            LET f == procs[p].forgeId
            IN  /\ (Steps(p) /\ procs[p].pc = "insertOne"
                             /\ procs'[p].read = "created")
                   => /\ Docs(coll, f) = {}
                      /\ Docs(coll', f) = {[_id |-> "forge-" \o f] @@ DefaultSession}
                      /\ procs'[p].req.name = "getAppState"
                            => procs'[p].state = DefaultSession
                /\ (Steps(p) /\ procs[p].pc = "findOne"
                             /\ procs'[p].read = "found"
                             /\ procs'[p].req.name = "getAppState")
                   => /\ coll' = coll
                      /\ procs'[p].status = "ok"
                      /\ Docs(coll, f) = {ToDoc(f, procs'[p].state)}
      ]_vars

\* Two handlers were creating the same session at once, and a getAppState
\* then read what the session had come to hold.
C4_Witness ==
    /\ procs["p1"].read = "created"
    /\ procs["p2"].read = "failed"
    /\ procs["p2"].pc = "done"
    /\ procs["p2"].req.name = "getAppState"
    /\ nFaults = 0
    /\ Cardinality(Docs(coll, "a")) = 1
    /\ Len(Session(coll, "a").contributions) = 1

\* C5: with the document store available and operations run one at a time,
\* after any operation other than resetAppState the stored contributions
\* and the stored syntheses each have their previous value as a prefix.
C5_AppendOnly ==
    (last.name \notin {"none", "resetAppState"} /\ Available) =>
        \A f \in ForgeIds :
            /\ IsPrefix(Session(last.before, f).contributions,
                        Session(coll, f).contributions)
            /\ IsPrefix(Session(last.before, f).syntheses,
                        Session(coll, f).syntheses)

\* The roles were replaced in a session that holds a contribution and a
\* synthesis.
C5_Witness ==
    /\ last.name = "updateRoles"
    /\ last.write = "ok"
    /\ nFaults = 0
    /\ Len(After.contributions) = 1
    /\ Len(After.syntheses) = 1

\* The chat messages and the briefings stored in a session
StoredMessages(state) ==
    UNION {{<<state.roleChats[i].roleId, state.roleChats[i].messages[j]>> :
                j \in 1..Len(state.roleChats[i].messages)} :
           i \in 1..Len(state.roleChats)}

StoredBriefings(state) ==
    UNION {{<<k, state.todos[k][j]>> : j \in 1..Len(state.todos[k])} :
           k \in DOMAIN state.todos}

\* C6 as claimed: no store operation other than resetAppState deletes or
\* replaces a stored chat message or a stored briefing (operations run one
\* at a time, the document store available).
C6_NothingDeleted ==
    (last.name \notin {"none", "resetAppState"} /\ Available) =>
        /\ StoredMessages(Before) \subseteq StoredMessages(After)
        /\ StoredBriefings(Before) \subseteq StoredBriefings(After)

\* C6, amended: with the document store available and operations run one
\* at a time, no store operation other than resetAppState, clearRoleChat
\* and addTodos deletes or replaces a stored chat message or briefing;
\* clearRoleChat(roleId) deletes the first RoleChat of roleId with all its
\* messages and keeps every other RoleChat, and addTodos(synthesisId, ..)
\* replaces the briefing set stored under synthesisId and keeps every other.
C6_DeletedOnlyByClearAndAddTodos ==
    (last.name \notin {"none", "resetAppState"} /\ Available) =>
        /\ last.name # "clearRoleChat" =>
             /\ Len(Before.roleChats) <= Len(After.roleChats)
             /\ \A i \in 1..Len(Before.roleChats) :
                   /\ After.roleChats[i].roleId = Before.roleChats[i].roleId
                   /\ IsPrefix(Before.roleChats[i].messages,
                               After.roleChats[i].messages)
        /\ last.name = "clearRoleChat" =>
             LET i == FindIndex(Before.roleChats, "roleId", last.req.roleId)
             IN  After.roleChats =
                   IF i = 0 THEN Before.roleChats
                   ELSE SubSeq(Before.roleChats, 1, i - 1)
                        \o SubSeq(Before.roleChats, i + 1, Len(Before.roleChats))
        /\ last.name # "addTodos" => After.todos = Before.todos
        /\ last.name = "addTodos" =>
             /\ DOMAIN After.todos = DOMAIN Before.todos \cup {last.req.synthesisId}
             /\ After.todos[last.req.synthesisId] = last.req.briefings
             /\ \A k \in DOMAIN Before.todos \ {last.req.synthesisId} :
                   After.todos[k] = Before.todos[k]

\* clearRoleChat has removed one of two chats, and the other is still there.
C6_Witness ==
    /\ last.name = "clearRoleChat"
    /\ last.write = "ok"
    /\ nFaults = 0
    /\ Len(Before.roleChats) = 2
    /\ Len(After.roleChats) = 1
    /\ After.roleChats[1].roleId # last.req.roleId

\* C7: when the document store cannot be read, getAppState returns the
\* default session without an error and the stored documents are unchanged.
C7_ReadFailureDegrades ==
    (last.name = "getAppState" /\ last.read = "failed") =>
        /\ last.status = "ok"
        /\ last.state = DefaultSession
        /\ coll = last.before

\* The read of a session that holds data of its own has failed.
C7_Witness ==
    /\ last.name = "getAppState"
    /\ last.read = "failed"
    /\ Docs(coll, "a") # {}
    /\ After # DefaultSession

\* C8: when the write to the document store fails, the mutation is dropped
\* and the operation returns without an error: the stored documents are
\* what they were before the call, but for the default document that the
\* call's own read has created for a forgeId that had none.
C8_WriteFailureDrops ==
    last.write = "failed" =>
        /\ last.status = "ok"
        /\ \/ coll = last.before
           \/ /\ last.read = "created"
              /\ Docs(last.before, last.forgeId) = {}
              /\ coll = last.before \cup {[_id |-> "forge-" \o last.forgeId]
                                            @@ DefaultSession}

\* The write of a contribution to a session that holds data has failed.
C8_Witness ==
    /\ last.write = "failed"
    /\ last.read = "found"
    /\ last.name = "addContribution"
    /\ last.state # After
    /\ After # DefaultSession

\* C9: a store operation invoked with one forgeId never changes the
\* document stored for another forgeId, whatever the interleaving and
\* whether or not its database calls fail.
C9_SessionIsolation ==
    [][ \A p \in Procs :
          Steps(p) =>
             \A g \in ForgeIds \ {procs'[p].forgeId} :
                 Docs(coll', g) = Docs(coll, g)
      ]_vars

\* Both sessions hold data of their own, written by interleaved handlers.
C9_Witness ==
    /\ procs["p1"].forgeId = "a" /\ procs["p2"].forgeId = "b"
    /\ procs["p1"].pc = "done" /\ procs["p2"].pc = "done"
    /\ procs["p1"].write = "ok" /\ procs["p2"].write = "ok"
    /\ "p2" \notin procs["p1"].overlap
    /\ Session(coll, "a") # DefaultSession
    /\ Session(coll, "b") # DefaultSession
    /\ Session(coll, "a") # Session(coll, "b")

\* C10: the poller reports completion (publishes the fetched syntheses and
\* todos, stops before its attempts are exhausted) only on an OK fetch
\* whose state holds the target synthesis and a non-empty todos[target].
C10_CompletionOnlyWithBriefings ==
    poller.pc = "completed" =>
        LET s == poller.fetched.state
        IN  /\ poller.fetched.outcome = "ok"
            /\ \E i \in 1..Len(s.syntheses) : s.syntheses[i].id = poller.target
            /\ poller.target \in DOMAIN s.todos
            /\ s.todos[poller.target] # <<>>
            /\ poller.syntheses = s.syntheses
            /\ poller.todos = s.todos
            /\ poller.attempts < MaxAttempts

\* The poller has seen the target synthesis without its briefing set, gone
\* on polling, and completed once the briefing set was there.
C10_Witness ==
    /\ poller.pc = "completed"
    /\ poller.attempts > 0
    /\ last.name = "addTodos"
    /\ nOps = 2

\* The poller has given up: every one of its fetches failed, answered
\* non-OK, or showed a session without the target's briefing set.
Exhausted == poller.pc = "timedOut"

\* C11 as claimed: when the poller stops after exhausting its attempts the
\* loading indicator set by handleSynthesize is still set.
C11_LoadingStaysSetOnTimeout ==
    Exhausted => poller.isLoading

\* C11 (amended): the loading indicator is set from the request of the
\* synthesis to the end of the polling; a poller that exhausts its 20
\* attempts stops without publishing any synthesis, briefing or context
\* and clears the loading indicator.
C11_TimeoutClearsLoading ==
    /\ poller.pc \in {"synthesizing", "fetching", "waiting"} => poller.isLoading
    /\ Exhausted =>
          /\ ~poller.isLoading
          /\ poller.attempts = MaxAttempts
          /\ poller.syntheses = <<>>
          /\ poller.todos = EmptyTodos
          /\ poller.overallContext = ""
          /\ ~(poller.fetched.outcome = "ok"
                 /\ IsComplete(poller.fetched.state, poller.target))

\* The poller gave up although the target synthesis was stored: its
\* briefing set never arrived.
C11_Witness ==
    /\ Exhausted
    /\ poller.target \in SynthIds
    /\ FindIndex(Session(coll, PollForge).syntheses, "id", poller.target) > 0
    /\ poller.fetched.outcome = "ok"

\* C12: a run of the poller issues at most 20 state fetches, every fetch
\* that fails, answers non-OK or does not show the target with its
\* briefing set consumes one attempt, after the 20th such fetch the
\* poller stops for good, and every run that was started stops (completed,
\* timed out, or failed at the synthesize request).
C12_PollerTerminates ==
    /\ [](poller.fetches <= MaxAttempts)
    /\ [](poller.pc \in {"waiting", "timedOut"} => poller.attempts = poller.fetches)
    /\ [](poller.pc = "fetching" => poller.attempts = poller.fetches - 1)
    /\ [](Exhausted => poller.attempts = MaxAttempts)
    /\ [][Exhausted => poller' = poller]_vars
    /\ (poller.pc = "synthesizing"
            ~> poller.pc \in {"completed", "timedOut", "failed"})

\* Twenty fetches were issued, failed ones among them, and the poller
\* stopped although the target was complete in the store by then.
C12_Witness ==
    /\ Exhausted
    /\ poller.fetches = MaxAttempts
    /\ poller.fetched.outcome # "ok"
    /\ IsComplete(Session(coll, PollForge), poller.target)

\* C13: under every interleaving of store operations on a forgeId, the
\* stored session holds at most one RoleChat per roleId and every stored
\* chat message is tagged user or ai.
C13_OneRoleChatPerRole ==
    \A d \in coll :
        LET chats == StateOf(d).roleChats
        IN  /\ \A i, j \in 1..Len(chats) :
                  chats[i].roleId = chats[j].roleId => i = j
            /\ \A i \in 1..Len(chats) :
                  \A k \in 1..Len(chats[i].messages) :
                      chats[i].messages[k].author \in {"user", "ai"}

\* Two addChatMessage calls for the same role, the second of which has
\* found the chat the first created: one RoleChat, two messages.
C13_Witness ==
    /\ \A p \in Procs : /\ procs[p].pc = "done"
                         /\ procs[p].req.name = "addChatMessage"
                         /\ procs[p].req.roleId = "1"
                         /\ procs[p].write = "ok"
    /\ Len(Session(coll, "a").roleChats) = 1
    /\ Len(Session(coll, "a").roleChats[1].messages) = 2

\* C14: in every stored session each key of todos is the id of a Synthesis
\* in syntheses, and the briefing set stored under a key holds at most one
\* briefing per roleId.
C14_TodosKeyedBySynthesis ==
    \A d \in coll :
        LET st == StateOf(d)
        IN  \A k \in DOMAIN st.todos :
                /\ FindIndex(st.syntheses, "id", k) > 0
                /\ \A i, j \in 1..Len(st.todos[k]) :
                      st.todos[k][i].roleId = st.todos[k][j].roleId => i = j

\* The request has no forgeId, or lacks another field its route requires:
\* the field is absent from the parsed body, or there is no body to parse.
LacksRequiredField(req) ==
    \/ req.kind \in {"unparsable", "null"}
    \/ req.forgeId \in {Undefined, Null}
    \/ \E x \in DOMAIN req.fields : x # "isQuestion" /\ req.fields[x] = Absent

\* C15: each route answers a request that lacks forgeId or another
\* required field with status 400, having called neither the session store
\* nor the AI service.
C15_MissingFieldIs400 ==
    (http.pc = "responded" /\ LacksRequiredField(http.req)) =>
        /\ http.response.status = 400
        /\ http.storeCalls = 0
        /\ http.aiCalls = 0

\* What holds of the routes' validation: a request whose body parses to an
\* object (or the query of GET /api/state) and that lacks a required field
\* is answered 400 without a store or AI call.
RouteValidatesParsedBody ==
    (http.pc = "responded" /\ LacksRequiredField(http.req)
        /\ http.req.kind \in {"object", "query"}) =>
        /\ http.response.status = 400
        /\ http.storeCalls = 0
        /\ http.aiCalls = 0

MessagesOf(st, roleId) ==
    LET i == FindIndex(st.roleChats, "roleId", roleId)
    IN  IF i = 0 THEN <<>> ELSE st.roleChats[i].messages

\* The roles a chat can be stored for
AllRoleIds == ChatRoleIds \cup AuthorIds

\* The session of the run's forgeId now; pipe.before is the session when
\* the run was scheduled.
Now == Session(coll, pipe.forgeId)

\* The branches of the Action Executor the run has entered
Branches == {i \in 1..Len(pipe.log) : pipe.log[i] \in Actions}

\* C17: a run enters exactly one branch of the Action Executor, the one of
\* its triage result, and is over when the branch is; with the store
\* available LOG_ONLY has made no model call and left syntheses, briefings
\* and chats as they were, ANSWER_DIRECTLY has appended exactly one ai
\* ChatMessage (to the contributing role's chat), SYNTHESIZE has appended
\* exactly one Synthesis and exactly one Briefing set, keyed by that
\* Synthesis's id; no run appends more than one Synthesis or ChatMessage.
C17_OneBranchPerTriage ==
    /\ [](Cardinality(Branches) <= 1)
    /\ [](pipe.pc # "idle" =>
            /\ Len(Now.syntheses) <= Len(pipe.before.syntheses) + 1
            /\ \A r \in AllRoleIds :
                  Len(MessagesOf(Now, r)) <=
                      Len(MessagesOf(pipe.before, r))
                          + (IF r = pipe.roleId THEN 1 ELSE 0))
    /\ [](pipe.pc = "done" =>
            /\ Cardinality(Branches) = 1
            /\ Logged(pipe.action)
            /\ pipe.action = Decide(pipe.output))
    /\ []((pipe.pc = "done" /\ nFaults = 0) =>
            LET b == pipe.before
                id == pipe.result.synthesisId
            IN  /\ pipe.action = "LOG_ONLY" =>
                      /\ ~Logged("actionCall")
                      /\ Now.syntheses = b.syntheses
                      /\ Now.todos = b.todos
                      /\ Now.roleChats = b.roleChats
                /\ pipe.action = "ANSWER_DIRECTLY" =>
                      /\ Now.syntheses = b.syntheses
                      /\ Now.todos = b.todos
                      /\ \A r \in AllRoleIds \ {pipe.roleId} :
                            MessagesOf(Now, r) = MessagesOf(b, r)
                      /\ LET ms == MessagesOf(Now, pipe.roleId)
                         IN  /\ Len(ms) = Len(MessagesOf(b, pipe.roleId)) + 1
                             /\ IsPrefix(MessagesOf(b, pipe.roleId), ms)
                             /\ ms[Len(ms)].author = "ai"
                             /\ ms[Len(ms)].content = pipe.result.text
                /\ pipe.action = "SYNTHESIZE" =>
                      /\ Now.syntheses = Append(b.syntheses, Synthesis(id))
                      /\ id \notin DOMAIN b.todos
                      /\ DOMAIN Now.todos = DOMAIN b.todos \cup {id}
                      /\ Now.todos[id] = pipe.result.briefings
                      /\ \A k \in DOMAIN b.todos : Now.todos[k] = b.todos[k]
                      /\ Now.roleChats = b.roleChats)
    /\ [][pipe.pc \in {"done", "aborted"} =>
            (pipe' = pipe \/ pipe'.pc = "scheduled")]_vars

\* A SYNTHESIZE run has finished in a session that already held the
\* synthesis and the briefing set of an earlier run.
C17_Witness ==
    /\ pipe.pc = "done"
    /\ pipe.action = "SYNTHESIZE"
    /\ nFaults = 0
    /\ Len(pipe.before.syntheses) = 1
    /\ Len(Now.syntheses) = 2
    /\ Cardinality(DOMAIN Now.todos) = 2

\* The run's triage call has returned text that is not JSON, or JSON
\* whose action is outside {LOG_ONLY, ANSWER_DIRECTLY, SYNTHESIZE}.
BadTriage ==
    /\ Logged("triageDecided")
    /\ ParseTriage(pipe.output) = TriageParseError

\* The contribution the run was scheduled for is in the stored session.
ContributionLogged ==
    FindIndex(Now.contributions, "id", pipe.contributionId) > 0

\* C18: a triage output that does not parse or names an action outside the
\* closed set resolves to LOG_ONLY: the run goes on to its end without a
\* model call for an answer or a synthesis, no step of it touches the
\* store, and the contribution stays logged.
C18_BadTriageIsLogOnly ==
    /\ [](BadTriage =>
            /\ pipe.action = "LOG_ONLY"
            /\ pipe.pc \in {"triaged", "done"}
            /\ pipe.failure = "none"
            /\ ~Logged("actionCall")
            /\ nFaults = 0 => ContributionLogged)
    /\ [][(BadTriage' /\ pipe' # pipe) => coll' = coll]_vars
    /\ (BadTriage ~> (BadTriage /\ pipe.pc = "done" /\ Logged("LOG_ONLY")))

\* A run whose triage answered with the action ESCALATE has ended in the
\* LOG_ONLY branch.
C18_Witness ==
    /\ pipe.pc = "done"
    /\ pipe.output = [json |-> TRUE, action |-> "ESCALATE"]
    /\ pipe.log = <<"triageCall", "triageDecided", "LOG_ONLY">>
    /\ ContributionLogged

\* The model call of the run's action has failed or timed out.
ActionFailed == Logged("actionFailed")

PersistEvents == {"synthesisPersisted", "briefingsPersisted", "chatPersisted"}

\* C19: when the model call of a SYNTHESIZE or ANSWER_DIRECTLY run fails
\* or times out, the run is over: it has made that call once and does not
\* make it again, it persists nothing (with the store available the
\* session's syntheses, briefing sets and chats are those of the start of
\* the run), and the originating contribution is still stored.
C19_FailedCallPersistsNothing ==
    /\ [](ActionFailed =>
            /\ pipe.pc = "aborted"
            /\ pipe.action \in {"SYNTHESIZE", "ANSWER_DIRECTLY"}
            /\ Count("actionCall") = 1
            /\ \A e \in PersistEvents : ~Logged(e)
            /\ nFaults = 0 =>
                  /\ Now.syntheses = pipe.before.syntheses
                  /\ Now.todos = pipe.before.todos
                  /\ Now.roleChats = pipe.before.roleChats
                  /\ ContributionLogged)
    /\ [][(ActionFailed' /\ pipe' # pipe) => coll' = coll]_vars
    /\ [][ActionFailed => (pipe' = pipe \/ pipe'.pc = "scheduled")]_vars

\* The synthesis call of a run has timed out in a session that held an
\* earlier synthesis with its briefing set.
C19_Witness ==
    /\ pipe.pc = "aborted"
    /\ pipe.action = "SYNTHESIZE"
    /\ pipe.failure = "ModelTimeoutError"
    /\ Len(pipe.before.syntheses) = 1
    /\ Len(Now.syntheses) = 1
    /\ ContributionLogged

\* event a is in the run's log, before event b
Precedes(a, b) == Logged(a) /\ Logged(b) /\ Position(a) < Position(b)

\* C20: within a run the triage decision comes before the action's model
\* call, every persistence comes after that call has returned
\* successfully, the Synthesis is persisted before the Briefing set keyed
\* by its id, and the store is written by the run in its persistence steps
\* only.
C20_TriageActionPersistOrder ==
    /\ [](/\ Logged("triageDecided") => Precedes("triageCall", "triageDecided")
          /\ Logged("actionCall") => Precedes("triageDecided", "actionCall")
          /\ Logged("actionReturned") => Precedes("actionCall", "actionReturned")
          /\ \A e \in PersistEvents :
                Logged(e) => Precedes("actionReturned", e) /\ ~ActionFailed
          /\ Logged("briefingsPersisted") =>
                Precedes("synthesisPersisted", "briefingsPersisted")
          /\ (pipe.pc = "persistBriefings" /\ nFaults = 0) =>
                /\ FindIndex(Now.syntheses, "id", pipe.result.synthesisId) > 0
                /\ pipe.result.synthesisId \notin DOMAIN Now.todos)
    /\ [][(pipe' # pipe /\ coll' # coll) =>
            /\ pipe.pc \in {"persistSynthesis", "persistBriefings", "persistChat"}
            /\ Logged("actionReturned")]_vars

\* A SYNTHESIZE run has gone through all its steps.
C20_Witness ==
    /\ pipe.pc = "done"
    /\ pipe.log = <<"triageCall", "triageDecided", "SYNTHESIZE", "actionCall",
                    "actionReturned", "synthesisPersisted", "briefingsPersisted">>
    /\ pipe.result.synthesisId \in DOMAIN Now.todos

\* The ai messages stored in a session
AiMessages(st) ==
    UNION {{<<i, k>> : k \in {k \in 1..Len(st.roleChats[i].messages) :
                                st.roleChats[i].messages[k].author = "ai"}}
           : i \in 1..Len(st.roleChats)}

\* The chat route serves a request that is not a question: isQuestion is
\* false, or omitted.
AddContext ==
    /\ http.req.route = "chat"
    /\ http.pc \in {"awaitingAi", "responded"}
    /\ http.aiCalls = 1
    /\ http.req.fields["isQuestion"] \in {Absent, Bool(FALSE)}

\* C21: a chat message sent with isQuestion false, or without isQuestion,
\* reaches the AI service with is_question false, makes it call no model
\* and append no ai ChatMessage: the one change of the session is the
\* contribution logged for the message.
C21_AddContextCallsNoModel ==
    /\ [](AddContext =>
            /\ ~http.isQuestion
            /\ http.modelCalls = 0
            /\ http.service \in {"none", "logged"}
            /\ http.storeCalls = 0)
    /\ [][(AddContext /\ AddContext' /\ http'.req = http.req /\ coll' # coll) =>
            LET b == Session(coll, http.req.forgeId)
                a == Session(coll', http.req.forgeId)
            IN  /\ AiMessages(a) = AiMessages(b)
                /\ a.roleChats = b.roleChats
                /\ a.syntheses = b.syntheses
                /\ a.todos = b.todos
                /\ Len(a.contributions) = Len(b.contributions) + 1
                /\ IsPrefix(b.contributions, a.contributions)
                /\ a.contributions[Len(a.contributions)].text =
                      http.req.fields["message"].string]_vars

\* A message sent without isQuestion has been logged as a contribution, in
\* a session where an earlier question got its ai answer.
C21_Witness ==
    /\ AddContext
    /\ http.req.fields["isQuestion"] = Absent
    /\ http.service = "logged"
    /\ Len(Session(coll, "a").contributions) = 1
    /\ AiMessages(Session(coll, "a")) # {}

\* The last operation on the prompt collection was a seeding, without
\* (with) the force flag.
Seeded(force) == prompts.lastOp.name = "seed" /\ prompts.lastOp.force = force

\* C22: a seeding without the force flag skips every prompt name that
\* exists and leaves the existing documents as they are (it adds only the
\* names that were missing), so that seeding once more changes nothing; a
\* seeding with the force flag stores the script's document under every
\* name of the script.
C22_SeedingIdempotent ==
    /\ Seeded(FALSE) =>
          /\ \A n \in DOMAIN prompts.before : prompts.docs[n] = prompts.before[n]
          /\ DOMAIN prompts.docs =
                DOMAIN prompts.before \cup DOMAIN prompts.lastOp.defs
          /\ \A n \in DOMAIN prompts.docs \ DOMAIN prompts.before :
                prompts.docs[n] = prompts.lastOp.defs[n]
          /\ \A defs \in SeedFiles :
                DOMAIN defs = DOMAIN prompts.lastOp.defs =>
                    Seed(prompts.docs, defs, FALSE) = prompts.docs
    /\ Seeded(TRUE) =>
          /\ \A n \in DOMAIN prompts.lastOp.defs :
                prompts.docs[n] = prompts.lastOp.defs[n]
          /\ \A n \in DOMAIN prompts.before \ DOMAIN prompts.lastOp.defs :
                prompts.docs[n] = prompts.before[n]

\* A second seeding without the flag, from a script whose template has
\* changed, has left a stored prompt that an operator had edited.
C22_Witness ==
    /\ Seeded(FALSE)
    /\ nOps = 3
    /\ \E n \in DOMAIN prompts.before :
          /\ n \in DOMAIN prompts.lastOp.defs
          /\ prompts.before[n].model = "m2"
          /\ prompts.lastOp.defs[n] # prompts.before[n]
          /\ prompts.lastOp.defs[n].template # prompts.before[n].template

\* C23: a mutation whose read of the session fails and whose write
\* succeeds keeps every contribution, synthesis, briefing set and chat
\* message that was stored before it.
C23_ReadFailureKeepsData ==
    ( /\ last.name \in {"addContribution", "addSynthesis", "addTodos",
                        "updateRoles", "updateGoal", "addChatMessage"}
      /\ last.read = "failed"
      /\ last.write = "ok" ) =>
        /\ IsPrefix(Before.contributions, After.contributions)
        /\ IsPrefix(Before.syntheses, After.syntheses)
        /\ DOMAIN Before.todos \subseteq DOMAIN After.todos
        /\ StoredMessages(Before) \subseteq StoredMessages(After)

\* C24: once a resetAppState has completed, no contribution that was
\* stored when the reset began is stored any more, whatever the other
\* handler (one that adds no contribution itself) had read before the
\* reset and writes after it.
C24_ResetIsFinal ==
    \A p, q \in Procs :
        ( /\ p # q
          /\ procs[p].req.name = "resetAppState"
          /\ procs[p].pc = "done"
          /\ procs[p].write = "ok"
          /\ procs[q].req.name # "addContribution" ) =>
            LET old == Session(procs[p].before, procs[p].forgeId).contributions
                now == Session(coll, procs[p].forgeId).contributions
            IN  \A i \in 1..Len(old) : \A j \in 1..Len(now) : now[j] # old[i]

\* The last operation of SeqSpec was a mutation that read the stored
\* session, wrote it and returned without an error.
Successful ==
    /\ last.name \in Names(MutationRequests)
    /\ last.status = "ok"
    /\ last.read \in {"found", "created"}
    /\ last.write = "ok"

Parts == {"roles", "contributions", "syntheses", "todos", "roleChats", "goal"}

\* The part of the session an operation writes
OwnPart(name) ==
    CASE name = "updateGoal" -> "goal"
      [] name = "updateRoles" -> "roles"
      [] name = "addContribution" -> "contributions"
      [] name = "addSynthesis" -> "syntheses"
      [] name = "addTodos" -> "todos"
      [] name \in {"addChatMessage", "clearRoleChat"} -> "roleChats"

\* C25: a successful mutation leaves every part of the session but its own
\* as it was; addTodos leaves every entry of todos but todos[synthesisId],
\* addChatMessage every RoleChat but the one of its roleId; updateRoles
\* leaves the contributions, authorName and authorTitle included.
C25_MutationsChangeOwnPartOnly ==
    Successful =>
        /\ \A part \in Parts \ {OwnPart(last.name)} : After[part] = Before[part]
        /\ last.name = "addTodos" =>
              /\ DOMAIN After.todos = DOMAIN Before.todos \cup {last.req.synthesisId}
              /\ \A k \in DOMAIN Before.todos \ {last.req.synthesisId} :
                    After.todos[k] = Before.todos[k]
        /\ last.name = "addChatMessage" =>
              \A r \in AllRoleIds \ {last.req.roleId} :
                  getRoleChat(After, r) = getRoleChat(Before, r)

\* addTodos has stored the briefings of a second synthesis
C25_Witness ==
    /\ Successful
    /\ last.name = "addTodos"
    /\ \E k \in DOMAIN Before.todos : k # last.req.synthesisId

\* The lastBriefingId of the role's chat in a session; "none" without a chat
LastBriefingId(state, roleId) ==
    LET i == FindIndex(state.roleChats, "roleId", roleId)
    IN  IF i = 0 THEN "none" ELSE state.roleChats[i].lastBriefingId

\* C26: a successful addChatMessage leaves the role's chat with the
\* briefingId it was passed as lastBriefingId, and without one with the
\* lastBriefingId the chat had (null when the call created the chat); no
\* operation changes the lastBriefingId of any other chat that it keeps.
C26_LastBriefingIdFollowsMessages ==
    /\ (Successful /\ last.name = "addChatMessage") =>
          LastBriefingId(After, last.req.roleId) =
              IF Truthy(last.req.briefingId) THEN last.req.briefingId
              ELSE IF LastBriefingId(Before, last.req.roleId) = "none" THEN Null
              ELSE LastBriefingId(Before, last.req.roleId)
    /\ \A r \in AllRoleIds :
          ( /\ last.name # "none"
            /\ last.name = "addChatMessage" => r # last.req.roleId
            /\ LastBriefingId(Before, r) # "none"
            /\ LastBriefingId(After, r) # "none" ) =>
              LastBriefingId(After, r) = LastBriefingId(Before, r)

\* a message without a briefingId was added to a chat that has one
C26_Witness ==
    /\ Successful
    /\ last.name = "addChatMessage"
    /\ ~Truthy(last.req.briefingId)
    /\ LastBriefingId(Before, last.req.roleId) = "s1"
    /\ LastBriefingId(After, last.req.roleId) = "s1"

\* The elements of a list have pairwise distinct ids
DistinctIds(seq) ==
    \A i, j \in 1..Len(seq) : seq[i].id = seq[j].id => i = j

\* C27: in every stored session the contributions have pairwise distinct
\* ids, and so have the messages of each RoleChat, whatever the clock read
\* at the additions.
C27_IdsDistinct ==
    \A f \in OneForge :
        LET st == Session(coll, f)
        IN  /\ DistinctIds(st.contributions)
            /\ \A i \in 1..Len(st.roleChats) :
                  DistinctIds(st.roleChats[i].messages)

\* The ids of a session's roles
RoleIds(state) == {state.roles[i].id : i \in 1..Len(state.roles)}

\* C28 (as claimed): every stored contribution's authorId is the id of one
\* of the session's current roles.
C28_AuthorIsCurrentRole ==
    \A f \in OneForge :
        LET st == Session(coll, f)
        IN  \A i \in 1..Len(st.contributions) :
                st.contributions[i].authorId \in RoleIds(st)

\* C28 (amended): with the store available, every contribution stored
\* after an operation was stored before it, or carries the id, name and
\* title of a role the session had when the operation began; updateRoles
\* leaves the stored contributions as they are.
C28_AuthorWasRoleAtCreation ==
    (last.name # "none" /\ Available) =>
        /\ \A i \in 1..Len(After.contributions) :
              \/ \E j \in 1..Len(Before.contributions) :
                    After.contributions[i] = Before.contributions[j]
              \/ \E k \in 1..Len(Before.roles) :
                    /\ After.contributions[i].authorId = Before.roles[k].id
                    /\ After.contributions[i].authorName = Before.roles[k].name
                    /\ After.contributions[i].authorTitle = Before.roles[k].title
        /\ last.name = "updateRoles" =>
              After.contributions = Before.contributions

\* updateRoles has stored a role list without the author of a stored
\* contribution
C28_Witness ==
    /\ Successful
    /\ last.name = "updateRoles"
    /\ \E i \in 1..Len(After.contributions) :
          /\ After.contributions[i].authorId \in RoleIds(Before)
          /\ After.contributions[i].authorId \notin RoleIds(After)

\* A step of the handler of PUT /api/goal
GoalRouteStep == nOps' = nOps + 1 /\ http'.req.route = "goal"

\* No stored session has the empty goal
GoalsNonEmpty == \A f \in OneForge : Session(coll, f).goal # ""

\* C29: the stored goal is never empty; PUT /api/goal answers a request
\* whose goal is missing or the empty string with status 400 and leaves the
\* collection as it is, and a request it accepts (status 200, the store
\* available) leaves the submitted goal stored.
C29_GoalNeverEmpty ==
    /\ []GoalsNonEmpty
    /\ [][GoalRouteStep =>
            LET req == http'.req
            IN  /\ (req.kind # "object" \/ ~TruthyField(req.fields["goal"])) =>
                      http'.response.status = 400 /\ coll' = coll
                /\ (http'.response.status = 200 /\ nFaults' = nFaults) =>
                      Session(coll', req.forgeId).goal = req.fields["goal"].string
         ]_vars

\* What holds of PUT /api/goal: the same, for the requests whose body
\* parses to an object.
GoalRouteKeepsGoalNonEmpty ==
    /\ []GoalsNonEmpty
    /\ [][GoalRouteStep =>
            LET req == http'.req
            IN  /\ (req.kind = "object" /\ ~TruthyField(req.fields["goal"])) =>
                      http'.response.status = 400 /\ coll' = coll
                /\ req.kind # "object" =>
                      http'.response.status = 500 /\ coll' = coll
                /\ (http'.response.status = 200 /\ nFaults' = nFaults) =>
                      Session(coll', req.forgeId).goal = req.fields["goal"].string
         ]_vars

\* A step that calls handleSendMessage
SendCalled == nOps' = nOps + 1

\* C30: the client has at most one chat request in flight; a call of
\* handleSendMessage issues no request while a send is marked in progress,
\* or when the message it reads is blank or no role is selected; the mark
\* is not set when no send is running, and a mark that is set is cleared.
C30_OneChatRequestInFlight ==
    /\ [](Cardinality(InFlight) <= 1)
    /\ [][(/\ SendCalled
           /\ \/ client.state.isSendingMessage
              \/ client.rendered.isSendingMessage
              \/ Trim(client.rendered.chatMessage) = ""
              \/ client.rendered.selectedRoleId = "") =>
                 client'.sends = client.sends]_vars
    /\ [](Running = {} => ~client.state.isSendingMessage)
    /\ (client.state.isSendingMessage ~> ~client.state.isSendingMessage)

\* handleSendMessage was called with a message and a role while a chat
\* request was in flight, and has issued nothing; a failed send lies behind
C30_Witness ==
    /\ client.lastCall.called
    /\ ~client.lastCall.issued
    /\ Cardinality(InFlight) = 1
    /\ Trim(client.rendered.chatMessage) # ""
    /\ client.rendered.selectedRoleId # ""
    /\ \E i \in 1..Len(client.sends) : client.sends[i].pc = "failed"

====
